---------------------------- MODULE Spec2Model ----------------------------
(***************************************************************************)
(* A model of useProviderAccountsPage (the shared provider-page hook) and  *)
(* of the pages that call it.                                              *)
(*                                                                         *)
(* The hook is a React function component hook.  Its state is the useState *)
(* cells and useRef cells of one hook instance; its operations are the     *)
(* handlers it returns, the promise callbacks of the backend calls it      *)
(* makes, its timers and its effects.  A handler run from a user event is  *)
(* one step together with the render and the effects that follow it (React *)
(* flushes a discrete event synchronously).  A promise callback or a timer *)
(* is one step that leaves a render pending; the effects of that render    *)
(* are the step RunEffects.                                                *)
(*                                                                         *)
(* The parts of the hook that do not share state are checked under         *)
(* specifications of their own: SpecOauth (add-modal and the OAuth device  *)
(* flow), SpecDelete (selection, delete confirmation, export),             *)
(* SpecRefresh (refresh markers) and SpecTags (tag deletion and editing).  *)
(***************************************************************************)
EXTENDS Integers, Sequences, FiniteSets, TLC

VARIABLES
    oauth,          \* add-modal and OAuth state, refs, backend logins, timers
    effectsPending, \* a render with its effects is scheduled and has not run
    accounts,       \* store.accounts: the ids of the accounts the page lists
    selected,       \* the selection set
    deleteConfirm,  \* <<>> for null, <<ids>> for { ids, message }
    deleting,
    deleteInFlight, \* <<>>, or <<ids>>: the deleteAccounts(ids) call pending
    exporting,
    message,        \* "none" for null, "ok", or "error" (tone: 'error')
    rejected,       \* the handlers whose returned promise has rejected
    refreshing,     \* the in-flight refresh marker: an account id, or NoAccount
    refreshCalls,   \* per account, the refreshToken(id) calls pending
    refreshingAll,
    refreshAllCalls, \* the refreshAllTokens() calls pending
    tagAccounts,    \* store.accounts: per account, its tags (a list of raw tags)
    tagFilter,      \* the active tag filter (a list of tags)
    tagDeleteConfirm, \* <<>> for null, <<[tag, count]>>
    deletingTag,
    showTagModal,   \* the account whose tags are edited, or NoAccount
    saveInFlight,   \* <<>>, or <<[id, tags]>>: handleSaveTags' call pending
    dtOutcome,      \* confirmDeleteTag: "idle", "running", "done" or "failed"
    dtTarget,       \* its target tag
    dtSnapshot,     \* the accounts its closure holds
    dtCalls,        \* the updateAccountTags calls it has issued, in order
    dtSettled,      \* how many of them have resolved
    currentAccountId, \* the current-account cell: an account id, or NoAccount
    storedAccountId,  \* the local-storage entry under currentAccountIdKey
    rendered,       \* what the last render saw: [currentAccountId, accounts]
    renderPending,  \* a state change has scheduled a render
    passivePending, \* the effects of the last render have not run yet
    injecting,      \* the inject marker: an account id, or NoAccount
    injectInFlight, \* the account of the pending injectToVSCode call, or NoAccount
    mountFetch,     \* the fetchAccounts of the mount effect: <<the list it will bring>>, <<>> once settled
    tokenImport,    \* the add-modal and handleTokenImport of the Antigravity page
    codexStore,     \* the Codex account store and its fetchAccounts calls
    exportModal,    \* the state of useExportJsonModal
    fnCall,         \* the pure function called and its arguments: [fn, ...]
    result          \* <<>> before the call returns, then <<the value returned>>

(***************************************************************************)
(* Bounds.                                                                 *)
(***************************************************************************)
\* startLogin calls one hook instance issues within a run
MaxLogins == 2
\* auto-close timers pending at the same time
MaxTimers == 1

\* accounts the store lists
NumAccounts == 3
\* backend calls of one kind pending at the same time for one account
MaxInFlight == 2
\* accounts the store lists in the tag specification
NumTagAccounts == 2
\* accounts one import call reports
MaxImported == 2

LoginIds == 1..MaxLogins
AccountIds == 1..NumAccounts
TagAccountIds == 1..NumTagAccounts

varsOauth == <<oauth, effectsPending>>
varsDelete == <<accounts, selected, deleteConfirm, deleting, deleteInFlight,
                exporting, message>>
varsRefresh == <<refreshing, refreshCalls, refreshingAll, refreshAllCalls>>
varsTagRun == <<dtOutcome, dtTarget, dtSnapshot, dtCalls, dtSettled>>
varsTags == <<tagAccounts, tagFilter, tagDeleteConfirm, deletingTag,
              showTagModal, saveInFlight, varsTagRun>>
varsCurrent == <<currentAccountId, storedAccountId, rendered, renderPending,
                 passivePending, injecting, injectInFlight>>
\* the pure functions: what the last call returned
varsUtil == <<fnCall, result>>
\* the parts modelled after the tag part
varsMount == <<mountFetch>>
\* the Antigravity page, the Codex store and the export hook
varsPages == <<tokenImport, codexStore, exportModal>>
varsOther == <<varsCurrent, varsUtil, varsMount, varsPages>>
vars == <<varsOauth, varsDelete, varsRefresh, varsTags, rejected, varsOther>>
\* what the steps of each part of the hook leave alone
varsNotOauth == <<varsDelete, varsRefresh, varsTags, rejected, varsOther>>
varsNotDelete == <<varsOauth, varsRefresh, varsTags, varsOther>>
varsNotRefresh == <<varsOauth, varsDelete, varsTags, rejected, varsOther>>
varsNotTags == <<varsOauth, varsDelete, varsRefresh, varsOther>>
varsNotCurrent == <<selected, deleteConfirm, deleting, deleteInFlight, exporting,
                    rejected, varsOauth, varsRefresh, varsTags, varsUtil, varsMount,
                    varsPages>>
varsNotUtil == <<varsOauth, varsDelete, varsRefresh, varsTags, rejected, varsCurrent,
                 varsMount, varsPages>>
varsHook == <<varsOauth, varsDelete, varsRefresh, varsTags, rejected, varsCurrent,
              varsMount, varsUtil>>

(***************************************************************************)
(* The add-modal and the OAuth device flow.                                *)
(*                                                                         *)
(* String cells that are null in the source hold "none" here; the empty    *)
(* string is "" and is falsy like null.                                    *)
(***************************************************************************)
\* oauthLoginIdRef.current === null
NoLogin == 0

AddTabs == {"oauth", "token", "import"}

\* what startLogin may resolve with: the url is
\* verificationUriComplete || verificationUri || authUrl || ''
StartResponses ==
    { [url |-> "url", userCode |-> "code", meta |-> "meta"],
      [url |-> "",    userCode |-> "none", meta |-> "none"] }

\* JavaScript truthiness of a string | null cell
Truthy(v) == v \notin {"none", ""}

\* logins[i]: where the i-th startLogin call of this hook instance stands
\*   "none"             not issued
\*   "starting"         startLogin pending
\*   "startRejected"    startLogin rejected
\*   "completing"       startLogin resolved, completeLogin(i) pending
\*   "completeRejected" completeLogin(i) rejected
\*   "fetching"         completeLogin(i) resolved, completeOauthSuccess awaits fetchAccounts
\*   "succeeded"        completeOauthSuccess finished
LoginStates ==
    {"none", "starting", "startRejected", "completing", "completeRejected",
     "fetching", "succeeded"}

OauthInitial ==
    [ showAddModal       |-> FALSE,
      addTab             |-> "oauth",
      addStatus          |-> "idle",
      addMessage         |-> "none",
      tokenInput         |-> <<>>,
      importing          |-> FALSE,
      importKind         |-> "none",
      importPhase        |-> "none",
      importCount        |-> 0,
      addMessageCount    |-> 0,
      showAddModalRef    |-> FALSE,
      addTabRef          |-> "oauth",
      oauthUrl           |-> "none",
      oauthUserCode      |-> "none",
      oauthMeta          |-> "none",
      oauthPrepareError  |-> "none",
      oauthCompleteError |-> "none",
      oauthPolling       |-> FALSE,
      oauthTimedOut      |-> FALSE,
      oauthActiveRef     |-> FALSE,
      oauthLoginIdRef    |-> NoLogin,
      oauthCompletingRef |-> FALSE,
      logins             |-> [i \in LoginIds |-> "none"],
      nLogins            |-> 0,
      cancelCalls        |-> [i \in LoginIds |-> 0],
      timers             |-> 0,
      timersOfClosed     |-> 0,
      modalOps           |-> 0 ]

\* modalOps counts the user's add-modal operations (open, close, retry): 0, 1, or
\* 2 for "two or more".
CountModalOp(s) == [s EXCEPT !.modalOps = IF @ = 0 THEN 1 ELSE 2]

resetAddModalState(s) ==
    [s EXCEPT !.addStatus = "idle",
              !.addMessage = "",
              !.tokenInput = <<>>,
              !.oauthUrl = "none",
              !.oauthUserCode = "none",
              !.oauthMeta = "none",
              !.oauthPrepareError = "none",
              !.oauthCompleteError = "none",
              !.oauthTimedOut = FALSE,
              !.oauthPolling = FALSE,
              !.oauthActiveRef = FALSE]

\* oauthService.startLogin() is called: the next login of this hook instance
IssueStartLogin(s) ==
    [s EXCEPT !.nLogins = @ + 1,
              !.logins = [i \in LoginIds |->
                            IF i = s.nLogins + 1 THEN "starting" ELSE s.logins[i]]]

prepareOauthUrl(s) ==
    IF ~s.showAddModalRef \/ s.addTabRef # "oauth" THEN s
    ELSE IF s.oauthActiveRef THEN s
    ELSE IF s.oauthCompletingRef THEN s
    ELSE IssueStartLogin(
           [s EXCEPT !.oauthActiveRef = TRUE,
                     !.oauthPrepareError = "none",
                     !.oauthCompleteError = "none",
                     !.oauthTimedOut = FALSE,
                     !.oauthPolling = FALSE,
                     !.oauthMeta = "none",
                     !.oauthUserCode = "none"])

handleOauthPrepareError(s) ==
    [s EXCEPT !.oauthActiveRef = FALSE,
              !.oauthCompletingRef = FALSE,
              !.oauthPolling = FALSE,
              !.oauthPrepareError = "err"]

handleOauthCompleteError(s, timedOut) ==
    [s EXCEPT !.oauthCompleteError = "err",
              !.oauthTimedOut = timedOut,
              !.oauthPolling = FALSE,
              !.oauthCompletingRef = FALSE,
              !.oauthActiveRef = FALSE]

\* the .finally of prepareOauthUrl's promise chain
PrepareFinally(s) == [s EXCEPT !.oauthActiveRef = FALSE]

(***************************************************************************)
(* The effects.  The pages pass oauthService as an object literal, a new   *)
(* object on every render, so prepareOauthUrl (a useCallback over          *)
(* oauthService) is a new function on every render and the two effects     *)
(* that depend on it or on oauthService run after every render.            *)
(***************************************************************************)
SyncRefsEffect(s) ==
    [s EXCEPT !.showAddModalRef = s.showAddModal, !.addTabRef = s.addTab]

AutoPrepareEffect(s) ==
    IF ~s.showAddModal \/ s.addTab # "oauth" \/ Truthy(s.oauthUrl) THEN s
    ELSE prepareOauthUrl(s)

CancelLogin(s, id) ==
    [s EXCEPT !.cancelCalls[id] = @ + 1]

\* mutant of CancelOauthEffect: the state is cleared but the backend is never told
CancelOauthEffect_NoBackendCall(s) ==
    IF s.showAddModal /\ s.addTab = "oauth" THEN s
    ELSE IF s.oauthLoginIdRef = NoLogin THEN s
    ELSE [s EXCEPT
              !.oauthActiveRef = FALSE,
              !.oauthLoginIdRef = NoLogin,
              !.oauthCompletingRef = FALSE,
              !.oauthUrl = "none",
              !.oauthUserCode = "none",
              !.oauthMeta = "none",
              !.oauthPrepareError = "none",
              !.oauthCompleteError = "none",
              !.oauthTimedOut = FALSE,
              !.oauthPolling = FALSE]

CancelOauthEffect(s) ==
    IF s.showAddModal /\ s.addTab = "oauth" THEN s
    ELSE IF s.oauthLoginIdRef = NoLogin THEN s
    ELSE [CancelLogin(s, s.oauthLoginIdRef) EXCEPT
              !.oauthActiveRef = FALSE,
              !.oauthLoginIdRef = NoLogin,
              !.oauthCompletingRef = FALSE,
              !.oauthUrl = "none",
              !.oauthUserCode = "none",
              !.oauthMeta = "none",
              !.oauthPrepareError = "none",
              !.oauthCompleteError = "none",
              !.oauthTimedOut = FALSE,
              !.oauthPolling = FALSE]

\* one render's effects, in the order the hook declares them
Effects(s) == CancelOauthEffect(AutoPrepareEffect(SyncRefsEffect(s)))

\* a step may issue a startLogin only while the run's bound allows one
WithinBounds(s) == s.nLogins <= MaxLogins /\ s.timers <= MaxTimers

(***************************************************************************)
(* User events on the add-modal.                                           *)
(***************************************************************************)
openAddModal(s, tab) ==
    resetAddModalState([s EXCEPT !.addTab = tab, !.showAddModal = TRUE])

\* timersOfClosed: how many of the pending auto-close timers were scheduled
\* before the modal was last closed; timers of one delay fire in the order
\* they were scheduled, so these fire first
closeAddModal(s) ==
    resetAddModalState([s EXCEPT !.showAddModal = FALSE, !.timersOfClosed = s.timers])

\* a retry that keeps the url of the failed attempt
handleRetryOauth_KeepsUrl(s) ==
    prepareOauthUrl(
        [s EXCEPT !.oauthActiveRef = FALSE,
                  !.oauthLoginIdRef = NoLogin,
                  !.oauthCompletingRef = FALSE,
                  !.oauthPrepareError = "none",
                  !.oauthCompleteError = "none",
                  !.oauthTimedOut = FALSE,
                  !.oauthPolling = FALSE])

handleRetryOauth(s) ==
    prepareOauthUrl(
        [s EXCEPT !.oauthActiveRef = FALSE,
                  !.oauthLoginIdRef = NoLogin,
                  !.oauthCompletingRef = FALSE,
                  !.oauthPrepareError = "none",
                  !.oauthCompleteError = "none",
                  !.oauthTimedOut = FALSE,
                  !.oauthPolling = FALSE,
                  !.oauthMeta = "none",
                  !.oauthUrl = "none",
                  !.oauthUserCode = "none"])

\* the page shows the add-modal's tab buttons and close button while the modal
\* is open, and the toolbar buttons open it on "oauth" or "token" (the latter
\* disabled while importing)
OpenButtonShown(s, tab) ==
    s.showAddModal \/ tab = "oauth" \/ (tab = "token" /\ ~s.importing)

\* the page renders a retry button beside the prepare error, and beside a
\* complete error that timed out (inside the url section)
RetryButtonShown(s) ==
    /\ s.showAddModal /\ s.addTab = "oauth"
    /\ \/ Truthy(s.oauthPrepareError)
       \/ /\ Truthy(s.oauthUrl)
          /\ Truthy(s.oauthCompleteError)
          /\ s.oauthTimedOut

\* the useState cells: React renders again, and runs effects, only when a
\* setter changed one of them (a setter given the current value bails out)
ReactState(s) ==
    <<s.showAddModal, s.addTab, s.addStatus, s.addMessage, s.addMessageCount,
      s.tokenInput, s.importing, s.oauthUrl, s.oauthUserCode, s.oauthMeta,
      s.oauthPrepareError, s.oauthCompleteError, s.oauthPolling, s.oauthTimedOut>>

Rendered(s, next) == IF ReactState(next) = ReactState(s) THEN next ELSE Effects(next)

UserEvent(next) ==
    /\ UNCHANGED varsNotOauth
    /\ ~effectsPending
    /\ LET t == Rendered(oauth, CountModalOp(next)) IN
         /\ WithinBounds(t)
         /\ oauth' = t
    /\ effectsPending' = FALSE

OpenAddModal(tab) ==
    /\ OpenButtonShown(oauth, tab)
    /\ UserEvent(openAddModal(oauth, tab))

CloseAddModal ==
    /\ oauth.showAddModal
    /\ UserEvent(closeAddModal(oauth))

HandleRetryOauth ==
    /\ RetryButtonShown(oauth)
    /\ UserEvent(handleRetryOauth(oauth))

(***************************************************************************)
(* Backend responses and timers: the promise chain of prepareOauthUrl.     *)
(***************************************************************************)
SetLogin(s, i, st) == [s EXCEPT !.logins[i] = st]

\* .then((resp) => { ...; return oauthService.completeLogin(resp.loginId) })
StartLoginThen(s, i, resp) ==
    [SetLogin(s, i, "completing") EXCEPT
        !.oauthLoginIdRef = i,
        !.oauthUrl = resp.url,
        !.oauthUserCode = resp.userCode,
        !.oauthMeta = IF resp.meta # "none" THEN resp.meta ELSE @,
        !.oauthPolling = TRUE,
        !.oauthCompletingRef = TRUE,
        !.oauthActiveRef = FALSE]

\* .then(async () => { ...; await completeOauthSuccess() }) up to its await
CompleteLoginThen(s, i) ==
    [SetLogin(s, i, "fetching") EXCEPT
        !.oauthPolling = FALSE,
        !.oauthCompletingRef = FALSE]

\* completeOauthSuccess that schedules no auto-close
completeOauthSuccess_NoTimer(s, i) ==
    PrepareFinally(
        [SetLogin(s, i, "succeeded") EXCEPT
            !.addStatus = "success",
            !.addMessage = "oauthSuccess"])

\* completeOauthSuccess after fetchAccounts, then the chain's .finally
completeOauthSuccess(s, i) ==
    PrepareFinally(
        [SetLogin(s, i, "succeeded") EXCEPT
            !.addStatus = "success",
            !.addMessage = "oauthSuccess",
            !.timers = @ + 1])

\* a promise callback or timer: its setters schedule a render
Callback(next) ==
    /\ UNCHANGED varsNotOauth
    /\ WithinBounds(next)
    /\ oauth' = next
    /\ effectsPending' = (effectsPending \/ ReactState(next) # ReactState(oauth))

\* a callback that calls or follows fetchAccounts: the store's set() renders
\* the page whatever the hook's setters do
CallbackWithFetch(next) ==
    /\ UNCHANGED varsNotOauth
    /\ WithinBounds(next)
    /\ oauth' = next
    /\ effectsPending' = TRUE

StartLoginResolves(i) ==
    /\ oauth.logins[i] = "starting"
    /\ \E resp \in StartResponses : Callback(StartLoginThen(oauth, i, resp))

StartLoginRejects(i) ==
    /\ oauth.logins[i] = "starting"
    /\ Callback(PrepareFinally(handleOauthPrepareError(SetLogin(oauth, i, "startRejected"))))

CompleteLoginResolves(i) ==
    /\ oauth.logins[i] = "completing"
    /\ CallbackWithFetch(CompleteLoginThen(oauth, i))

CompleteLoginRejects(i) ==
    /\ oauth.logins[i] = "completing"
    /\ \E timedOut \in BOOLEAN :
         Callback(PrepareFinally(
             handleOauthCompleteError(SetLogin(oauth, i, "completeRejected"), timedOut)))

FetchAccountsResolves(i) ==
    /\ oauth.logins[i] = "fetching"
    /\ CallbackWithFetch(completeOauthSuccess(oauth, i))

\* setTimeout(() => { setShowAddModal(false); resetAddModalState(); }, 1200)
AutoCloseTimerFires ==
    /\ oauth.timers > 0
    /\ Callback(closeAddModal([oauth EXCEPT !.timers = @ - 1]))

\* the page re-renders for a reason of its own (a store update, a keystroke)
Rerender ==
    /\ ~effectsPending
    /\ effectsPending' = TRUE
    /\ UNCHANGED <<oauth, varsNotOauth>>

RunEffects ==
    /\ UNCHANGED varsNotOauth
    /\ effectsPending
    /\ LET t == Effects(oauth) IN
         /\ WithinBounds(t)
         /\ oauth' = t
    /\ effectsPending' = FALSE

\* refreshing === null
NoAccount == 0

InitOauthVars == oauth = OauthInitial /\ effectsPending = FALSE

InitDeleteVars ==
    /\ accounts = AccountIds
    /\ selected = {}
    /\ deleteConfirm = <<>>
    /\ deleting = FALSE
    /\ deleteInFlight = <<>>
    /\ exporting = FALSE
    /\ message = "none"
    /\ rejected = {}

InitRefreshVars ==
    /\ refreshing = NoAccount
    /\ refreshCalls = [a \in AccountIds |-> 0]
    /\ refreshingAll = FALSE
    /\ refreshAllCalls = 0

\* everything of the tag part but the accounts' tags
InitTagState ==
    /\ tagFilter = <<>>
    /\ tagDeleteConfirm = <<>>
    /\ deletingTag = FALSE
    /\ showTagModal = NoAccount
    /\ saveInFlight = <<>>
    /\ dtOutcome = "idle"
    /\ dtTarget = <<>>
    /\ dtSnapshot = <<>>
    /\ dtCalls = <<>>
    /\ dtSettled = 0

InitTagVars == tagAccounts = [a \in TagAccountIds |-> <<>>] /\ InitTagState

\* the current-account part with no entry in local storage, mounted and settled
InitCurrentVars ==
    /\ currentAccountId = NoAccount
    /\ storedAccountId = NoAccount
    /\ rendered = [currentAccountId |-> NoAccount, accounts |-> AccountIds]
    /\ renderPending = FALSE
    /\ passivePending = FALSE
    /\ injecting = NoAccount
    /\ injectInFlight = NoAccount

\* no pure function is called
InitUtilVars == fnCall = [fn |-> "none"] /\ result = <<>>

\* the first fetchAccounts has settled
InitMountVars == mountFetch = <<>>

NoMessage == [key |-> "", a |-> 0, b |-> 0]

\* the Antigravity page with its add-modal closed
TokenImportInitial ==
    [ showAddModal |-> FALSE,
      addStatus    |-> "idle",
      addMessage   |-> NoMessage,
      tokenInput   |-> [kind |-> "blank", items |-> <<>>, refreshTokens |-> <<>>],
      importing    |-> FALSE,
      phase        |-> "idle",
      tokens       |-> <<>>,
      calls        |-> <<>>,
      success      |-> 0,
      fail         |-> 0,
      timers       |-> 0 ]

\* create(...): the store's initial state, no call in flight
\* the Codex store after create(): no accounts, not loading, no error; pending
\* lists the store operations under way
CodexStoreInitial == [ accounts |-> <<>>, loading |-> FALSE, error |-> "none", pending |-> <<>> ]

\* useExportJsonModal after its useState calls; pending lists the exports
\* awaited, savePending tells whether saveJsonFile is awaited
ExportModalInitial ==
    [ preparing |-> FALSE, showModal |-> FALSE, jsonContent |-> "", hidden |-> TRUE,
      copied |-> FALSE, saving |-> FALSE, savedPath |-> "none", pathCopied |-> FALSE,
      pending |-> <<>>, savePending |-> FALSE, started |-> 0, onErrorCalls |-> 0 ]

InitPagesVars ==
    /\ tokenImport = TokenImportInitial
    /\ codexStore = CodexStoreInitial
    /\ exportModal = ExportModalInitial

InitOtherVars == InitCurrentVars /\ InitUtilVars /\ InitMountVars /\ InitPagesVars

InitOauth ==
    InitOauthVars /\ InitDeleteVars /\ InitRefreshVars /\ InitTagVars /\ InitOtherVars

NextOauth ==
    \/ \E tab \in AddTabs : OpenAddModal(tab)
    \/ CloseAddModal
    \/ HandleRetryOauth
    \/ \E i \in LoginIds : StartLoginResolves(i)
    \/ \E i \in LoginIds : StartLoginRejects(i)
    \/ \E i \in LoginIds : CompleteLoginResolves(i)
    \/ \E i \in LoginIds : CompleteLoginRejects(i)
    \/ \E i \in LoginIds : FetchAccountsResolves(i)
    \/ AutoCloseTimerFires
    \/ Rerender
    \/ RunEffects

SpecOauth == InitOauth /\ [][NextOauth]_vars


(***************************************************************************)
(* Claims about the OAuth flow (checked under SpecOauth).                  *)
(***************************************************************************)
ModalOnOauth(s) == s.showAddModal /\ s.addTab = "oauth"

\* completeLogin calls issued and not yet resolved or rejected
CompleteLoginsInFlight == {i \in LoginIds : oauth.logins[i] = "completing"}

\* completeLogin calls issued so far
CompleteLoginCalls ==
    {i \in LoginIds :
        oauth.logins[i] \in {"completing", "completeRejected", "fetching", "succeeded"}}

\* C1: at most one completeLogin call is in flight (issued and not yet resolved
\* or rejected) per hook instance at any time.
C1_AtMostOneCompleteLoginInFlight == Cardinality(CompleteLoginsInFlight) <= 1

\* the user has opened the add-modal on the oauth tab once, done nothing else
\* to it, and it is still open
OpenedOnceAndLeftOpen == oauth.modalOps = 1 /\ ModalOnOauth(oauth)

\* C2: opening the add-modal on the oauth tab once and leaving it open causes
\* exactly one startLogin call and, once that call has resolved, exactly one
\* completeLogin call, with the login id startLogin returned.
C2_OpenOnceOneStartOneComplete ==
    OpenedOnceAndLeftOpen =>
        /\ oauth.nLogins <= 1
        /\ ~effectsPending => oauth.nLogins = 1
        /\ CompleteLoginCalls \subseteq {1}
        /\ oauth.logins[1] \notin {"none", "starting", "startRejected"}
              => CompleteLoginCalls = {1}

OauthLocalStateCleared(s) ==
    /\ s.oauthLoginIdRef = NoLogin
    /\ s.oauthUrl = "none"
    /\ s.oauthUserCode = "none"
    /\ s.oauthMeta = "none"
    /\ s.oauthPrepareError = "none"
    /\ s.oauthCompleteError = "none"
    /\ ~s.oauthPolling
    /\ ~s.oauthTimedOut

\* C3: when the add-modal is closed, or leaves the oauth tab, while login id i
\* is held and completeLogin(i) has not resolved, then once the effects have
\* run cancelLogin(i) has been called exactly once (never before, never
\* again) and the held login id and the OAuth-local state are cleared.
C3_CloseCancelsHeldLogin ==
    [][ /\ \A i \in LoginIds :
              ( /\ oauth.oauthLoginIdRef = i
                /\ oauth.logins[i] = "completing"
                /\ ~ModalOnOauth(oauth')
                /\ ~effectsPending' )
              => ( /\ oauth.cancelCalls[i] = 0
                   /\ oauth'.cancelCalls[i] = 1
                   /\ OauthLocalStateCleared(oauth') )
        /\ \A i \in LoginIds : oauth'.cancelCalls[i] <= 1 ]_vars

\* C3's case: the modal was closed while completeLogin(i) was pending, and
\* cancelLogin(i) has been called
C3_Witness ==
    \E i \in LoginIds :
        /\ oauth.logins[i] = "completing"
        /\ oauth.cancelCalls[i] = 1
        /\ ~ModalOnOauth(oauth)
        /\ ~effectsPending
        /\ OauthLocalStateCleared(oauth)

\* a login session the hook started and that is still live: startLogin or
\* completeLogin pending, and cancelLogin not called with its id
LiveSessions ==
    {i \in LoginIds :
        oauth.logins[i] \in {"starting", "completing"} /\ oauth.cancelCalls[i] = 0}

\* C4: while the add-modal is closed or off the oauth tab (effects run), no
\* login session started by the hook is live; and at most one is live at any
\* time.
C4_NoLiveSessionOffOauth ==
    /\ (~ModalOnOauth(oauth) /\ ~effectsPending) => LiveSessions = {}
    /\ Cardinality(LiveSessions) <= 1

\* C5: startLogin is only ever called in a step of the user (opening the modal
\* or selecting a tab, or handleRetryOauth); a backend response, a timer or a
\* re-render never starts a login.
C5_NoAutomaticRetry ==
    [][ oauth'.nLogins # oauth.nLogins =>
            \/ \E tab \in AddTabs : OpenAddModal(tab)
            \/ HandleRetryOauth ]_vars


SpecOauthLive ==
    /\ SpecOauth
    /\ WF_vars(AutoCloseTimerFires)
    /\ WF_vars(\E i \in LoginIds : FetchAccountsResolves(i))

\* the add-modal closed, with the add-modal and OAuth cells back at idle
ClosedAndIdle(s) ==
    /\ ~s.showAddModal
    /\ s.addStatus = "idle"
    /\ s.addMessage = ""
    /\ s.oauthUrl = "none"
    /\ s.oauthUserCode = "none"
    /\ s.oauthMeta = "none"
    /\ s.oauthPrepareError = "none"
    /\ s.oauthCompleteError = "none"
    /\ ~s.oauthPolling
    /\ ~s.oauthTimedOut

\* C13: when completeLogin has resolved with the add-modal open on the oauth
\* tab, addStatus becomes success with the success message only after the
\* accounts were re-fetched, an auto-close timer is scheduled with it, and the
\* add-modal eventually is closed with the add-modal and OAuth state at idle.
C13_OauthSuccessAutoCloses ==
    /\ [][ \A i \in LoginIds :
             (oauth.logins[i] # "succeeded" /\ oauth'.logins[i] = "succeeded")
                => /\ oauth.logins[i] = "fetching"
                   /\ oauth'.addStatus = "success"
                   /\ oauth'.addMessage = "oauthSuccess"
                   /\ oauth'.timers = oauth.timers + 1 ]_vars
    /\ (ModalOnOauth(oauth) /\ \E i \in LoginIds : oauth.logins[i] = "fetching")
          ~> ClosedAndIdle(oauth)

\* a login that succeeded and whose modal the timer has closed
C13_Witness ==
    /\ \E i \in LoginIds : oauth.logins[i] = "succeeded"
    /\ oauth.modalOps = 1
    /\ oauth.timers = 0
    /\ ClosedAndIdle(oauth)

\* the result of login i arrives (completeLogin settles, or the fetchAccounts
\* of its success path does) while the hook no longer holds login i: it was
\* cancelled or another login took its place
StaleResultArrives(i) ==
    /\ oauth.logins[i] \in {"completing", "fetching"}
    /\ oauth'.logins[i] # oauth.logins[i]
    /\ oauth.oauthLoginIdRef # i

\* C18: the completeLogin result of a cancelled or superseded session changes
\* nothing of a newer session or of a closed modal: the complete error, the
\* timed-out flag, oauthPolling, the two in-flight guards and addStatus stay
\* as they are and no auto-close is scheduled.
C18_StaleCompleteLoginChangesNothing ==
    [][ \A i \in LoginIds :
          StaleResultArrives(i)
             => /\ oauth'.oauthCompleteError = oauth.oauthCompleteError
                /\ oauth'.oauthTimedOut = oauth.oauthTimedOut
                /\ oauth'.oauthPolling = oauth.oauthPolling
                /\ oauth'.oauthCompletingRef = oauth.oauthCompletingRef
                /\ oauth'.oauthActiveRef = oauth.oauthActiveRef
                /\ oauth'.addStatus = oauth.addStatus
                /\ oauth'.timers = oauth.timers ]_vars

\* an auto-close timer fires that was scheduled before the modal was last
\* closed, and the modal is open again
OldTimerFiresOnReopenedModal ==
    /\ oauth.timersOfClosed > 0
    /\ oauth'.timers = oauth.timers - 1
    /\ oauth.showAddModal

\* C20: an auto-close timer closes only the modal session in which the
\* success happened: fired after the modal was closed and opened again it
\* leaves the open modal, its status and message, and its OAuth session as
\* they are.
C20_OldTimerLeavesReopenedModal ==
    [][ OldTimerFiresOnReopenedModal
           => [oauth' EXCEPT !.timers = 0, !.timersOfClosed = 0]
                = [oauth EXCEPT !.timers = 0, !.timersOfClosed = 0] ]_vars


(***************************************************************************)
(* Selection, delete with confirmation, export (SpecDelete).               *)
(***************************************************************************)
toggleSelect(sel, id) == IF id \in sel THEN sel \ {id} ELSE sel \cup {id}

ToggleSelect(id) ==
    /\ id \in accounts
    /\ selected' = toggleSelect(selected, id)
    /\ UNCHANGED <<accounts, deleteConfirm, deleting, deleteInFlight, exporting,
                   message, rejected, varsNotDelete>>

HandleDelete(accountId) ==
    /\ accountId \in accounts
    /\ deleteConfirm' = <<{accountId}>>
    /\ UNCHANGED <<accounts, selected, deleting, deleteInFlight, exporting,
                   message, rejected, varsNotDelete>>

HandleBatchDelete ==
    /\ deleteConfirm' = IF Cardinality(selected) = 0 THEN deleteConfirm
                        ELSE <<selected>>
    /\ UNCHANGED <<accounts, selected, deleting, deleteInFlight, exporting,
                   message, rejected, varsNotDelete>>

\* the dialog's overlay, close and cancel controls: setDeleteConfirm(null)
DismissDeleteConfirm ==
    /\ deleteConfirm # <<>>
    /\ ~deleting
    /\ deleteConfirm' = <<>>
    /\ UNCHANGED <<accounts, selected, deleting, deleteInFlight, exporting,
                   message, rejected, varsNotDelete>>

\* mutant of ConfirmDeleteReturnsEarly: the in-progress check is missing
ConfirmDeleteReturnsEarly_NoDeletingCheck == deleteConfirm = <<>>

\* if (!deleteConfirm || deleting) return;
ConfirmDeleteReturnsEarly == deleteConfirm = <<>> \/ deleting

\* confirmDelete up to its await deleteAccounts(deleteConfirm.ids)
ConfirmDelete ==
    /\ IF ConfirmDeleteReturnsEarly
       THEN UNCHANGED <<deleting, deleteInFlight>>
       ELSE /\ deleting' = TRUE
            /\ deleteInFlight' = deleteConfirm
    /\ UNCHANGED <<accounts, selected, deleteConfirm, exporting, message,
                   rejected, varsNotDelete>>

\* deleteAccounts(ids) resolves: the store has re-fetched the list, from which
\* the backend removed all, or only some, of the ids
DeleteResolves ==
    /\ deleteInFlight # <<>>
    /\ \E removed \in SUBSET deleteInFlight[1] : accounts' = accounts \ removed
    /\ selected' = selected \ deleteInFlight[1]
    /\ deleteConfirm' = <<>>
    /\ deleting' = FALSE
    /\ deleteInFlight' = <<>>
    /\ UNCHANGED <<exporting, message, rejected, varsNotDelete>>

\* deleteAccounts(ids) rejects: only the finally block runs, and the rejection
\* leaves confirmDelete
DeleteRejects ==
    /\ deleteInFlight # <<>>
    /\ deleting' = FALSE
    /\ deleteInFlight' = <<>>
    /\ rejected' = rejected \cup {"confirmDelete"}
    /\ UNCHANGED <<accounts, selected, deleteConfirm, exporting, message,
                   varsNotDelete>>

\* handleExport up to its first await; the page disables the button meanwhile
HandleExport ==
    /\ ~exporting
    /\ exporting' = TRUE
    /\ UNCHANGED <<accounts, selected, deleteConfirm, deleting, deleteInFlight,
                   message, rejected, varsNotDelete>>

\* exportAccounts and saveJsonFile settle: saved, save dialog dismissed, or failed
ExportSettles ==
    /\ exporting
    /\ \E outcome \in {"saved", "dismissed", "failed"} :
         message' = CASE outcome = "saved" -> "ok"
                      [] outcome = "dismissed" -> message
                      [] outcome = "failed" -> "error"
    /\ exporting' = FALSE
    /\ UNCHANGED <<accounts, selected, deleteConfirm, deleting, deleteInFlight,
                   rejected, varsNotDelete>>

InitDelete ==
    InitOauthVars /\ InitDeleteVars /\ InitRefreshVars /\ InitTagVars /\ InitOtherVars

NextDelete ==
    \/ \E id \in AccountIds : ToggleSelect(id)
    \/ \E id \in AccountIds : HandleDelete(id)
    \/ HandleBatchDelete
    \/ DismissDeleteConfirm
    \/ ConfirmDelete
    \/ DeleteResolves
    \/ DeleteRejects
    \/ HandleExport
    \/ ExportSettles

SpecDelete == InitDelete /\ [][NextDelete]_vars

\* C6: deleteAccounts is only called by confirmDelete, while deleteConfirm is
\* set and no delete is in progress, with exactly the ids deleteConfirm holds;
\* deleteConfirm is only ever set to one listed id (handleDelete) or to the
\* non-empty selection of that moment (handleBatchDelete), by a step that
\* calls no backend.
C6_DeleteOnlyThroughConfirm ==
    [][ /\ (deleteInFlight' # deleteInFlight /\ deleteInFlight' # <<>>)
              => /\ deleteConfirm # <<>>
                 /\ ~deleting
                 /\ deleteInFlight = <<>>
                 /\ deleteInFlight' = deleteConfirm
                 /\ deleteConfirm' = deleteConfirm
        /\ (deleteConfirm' # deleteConfirm /\ deleteConfirm' # <<>>)
              => /\ deleteInFlight' = deleteInFlight
                 /\ accounts' = accounts
                 /\ \/ \E id \in accounts : deleteConfirm' = <<{id}>>
                    \/ selected # {} /\ deleteConfirm' = <<selected>> ]_vars

\* C6's case: a batch delete was confirmed and deleteAccounts is pending with
\* the ids of the selection
C6_Witness ==
    /\ deleting
    /\ deleteInFlight # <<>>
    /\ deleteInFlight = deleteConfirm
    /\ Cardinality(deleteInFlight[1]) = 2

\* C7: when confirmDelete completes, whether the backend delete succeeded,
\* partially failed or rejected, none of the ids it was called with is still
\* selected.
C7_SelectionPrunedOnCompletion ==
    [][ (deleteInFlight # <<>> /\ deleteInFlight' = <<>>)
            => selected' \cap deleteInFlight[1] = {} ]_vars

\* C8: no handler's promise rejects: a backend failure never leaves a handler.
C8_NoRejectionEscapes == rejected = {}


(***************************************************************************)
(* Refresh markers (SpecRefresh).                                          *)
(***************************************************************************)
\* handleRefresh up to its await; the page disables the row's button while
\* refreshing === account.id
HandleRefresh(accountId) ==
    /\ refreshing # accountId
    /\ refreshCalls[accountId] < MaxInFlight
    /\ refreshing' = accountId
    /\ refreshCalls' = [refreshCalls EXCEPT ![accountId] = @ + 1]
    /\ UNCHANGED <<refreshingAll, refreshAllCalls, varsNotRefresh>>

\* refreshToken(accountId) resolves, or rejects and is logged: handleRefresh
\* goes on to setRefreshing(null) either way
RefreshSettles(accountId) ==
    /\ refreshCalls[accountId] > 0
    /\ refreshing' = NoAccount
    /\ refreshCalls' = [refreshCalls EXCEPT ![accountId] = @ - 1]
    /\ UNCHANGED <<refreshingAll, refreshAllCalls, varsNotRefresh>>

\* handleRefreshAll up to its await; the page disables the button while
\* refreshingAll is set
HandleRefreshAll ==
    /\ ~refreshingAll
    /\ refreshAllCalls < MaxInFlight
    /\ refreshingAll' = TRUE
    /\ refreshAllCalls' = refreshAllCalls + 1
    /\ UNCHANGED <<refreshing, refreshCalls, varsNotRefresh>>

\* refreshAllTokens() resolves, or rejects and is logged
RefreshAllSettles ==
    /\ refreshAllCalls > 0
    /\ refreshingAll' = FALSE
    /\ refreshAllCalls' = refreshAllCalls - 1
    /\ UNCHANGED <<refreshing, refreshCalls, varsNotRefresh>>

InitRefresh ==
    InitOauthVars /\ InitDeleteVars /\ InitRefreshVars /\ InitTagVars /\ InitOtherVars

NextRefresh ==
    \/ \E id \in AccountIds : HandleRefresh(id)
    \/ \E id \in AccountIds : RefreshSettles(id)
    \/ HandleRefreshAll
    \/ RefreshAllSettles

SpecRefresh == InitRefresh /\ [][NextRefresh]_vars

\* C10: while a refresh of account X is pending the marker identifies X as
\* refreshing, whatever other refreshes start or finish meanwhile; with no
\* per-account refresh pending the marker is null; refreshingAll is set exactly
\* while a refresh-all call is pending.
C10_MarkerIdentifiesEveryRefresh ==
    /\ \A x \in AccountIds : refreshCalls[x] > 0 => refreshing = x
    /\ (\A x \in AccountIds : refreshCalls[x] = 0) => refreshing = NoAccount
    /\ refreshingAll <=> refreshAllCalls > 0


(***************************************************************************)
(* Tag deletion and tag editing (SpecTags).                                *)
(*                                                                         *)
(* A tag is a string, held here as the sequence of its characters so that  *)
(* trimming and lower-casing are computed.                                 *)
(***************************************************************************)
TagWork == <<"a">>
TagWorkRaw == <<" ", "A">>
TagHome == <<"b">>
TagBlank == <<" ">>

\* the tag lists an account may carry and the tag editor may save
TagLists == { <<>>, <<TagWork, TagBlank>>, <<TagWorkRaw, TagHome>> }

\* the tag lists the tag editor may hand to handleSaveTags
SavedTagLists == { <<>>, <<TagWorkRaw, TagHome>> }

\* String.prototype.toLowerCase, one character
toLowerCase(c) == IF c = "A" THEN "a" ELSE IF c = "B" THEN "b" ELSE c

RECURSIVE trimStart(_)
trimStart(tag) ==
    IF tag # <<>> /\ Head(tag) = " " THEN trimStart(Tail(tag)) ELSE tag

RECURSIVE trimEnd(_)
trimEnd(tag) ==
    IF tag # <<>> /\ tag[Len(tag)] = " "
    THEN trimEnd(SubSeq(tag, 1, Len(tag) - 1))
    ELSE tag

\* String.prototype.trim
trim(tag) == trimEnd(trimStart(tag))

RECURSIVE lowerAll(_)
lowerAll(tag) ==
    IF tag = <<>> THEN <<>> ELSE <<toLowerCase(Head(tag))>> \o lowerAll(Tail(tag))

normalizeTag(tag) == lowerAll(trim(tag))

\* (acc.tags || []).some((t) => normalizeTag(t) === target)
HasTag(tags, target) == \E k \in 1..Len(tags) : normalizeTag(tags[k]) = target

\* dtOutcome, dtTarget, dtSnapshot, dtCalls and dtSettled describe the run of
\* confirmDeleteTag in progress, or the run that ended on the last step
RunLogKept ==
    IF dtOutcome = "running"
    THEN UNCHANGED varsTagRun
    ELSE /\ dtOutcome' = "idle"
         /\ dtTarget' = <<>>
         /\ dtSnapshot' = <<>>
         /\ dtCalls' = <<>>
         /\ dtSettled' = 0

\* the tag dialogs are modal: while one is shown it covers the rows and the
\* filter panel of the page
NoTagDialogShown == showTagModal = NoAccount /\ tagDeleteConfirm = <<>>

\* the set behind availableTags (the page lists it sorted)
availableTags ==
    UNION { { normalizeTag(tagAccounts[a][k]) : k \in 1..Len(tagAccounts[a]) } :
            a \in TagAccountIds } \ {<<>>}

\* prev.includes(tag) ? prev.filter(item => item !== tag) : [...prev, tag]
toggleTagFilterValue(prev, tag) ==
    IF \E k \in 1..Len(prev) : prev[k] = tag
    THEN SelectSeq(prev, LAMBDA item : item # tag)
    ELSE Append(prev, tag)

\* the page offers the tags of availableTags in the filter panel
ToggleTagFilterValue(tag) ==
    /\ NoTagDialogShown
    /\ tag \in availableTags
    /\ tagFilter' = toggleTagFilterValue(tagFilter, tag)
    /\ UNCHANGED <<tagAccounts, tagDeleteConfirm, deletingTag, showTagModal,
                   saveInFlight, rejected, varsNotTags>>
    /\ RunLogKept

ClearTagFilter ==
    /\ NoTagDialogShown
    /\ tagFilter # <<>>
    /\ tagFilter' = <<>>
    /\ UNCHANGED <<tagAccounts, tagDeleteConfirm, deletingTag, showTagModal,
                   saveInFlight, rejected, varsNotTags>>
    /\ RunLogKept

\* what requestDeleteTag leaves in tagDeleteConfirm
requestDeleteTag(tag) ==
    IF normalizeTag(tag) = <<>>
    THEN tagDeleteConfirm
    ELSE << [ tag   |-> normalizeTag(tag),
              count |-> Cardinality({ a \in TagAccountIds :
                                        HasTag(tagAccounts[a], normalizeTag(tag)) }) ] >>

\* the page offers the delete button for the tags of availableTags
RequestDeleteTag(tag) ==
    /\ NoTagDialogShown
    /\ tag \in availableTags
    /\ tagDeleteConfirm' = requestDeleteTag(tag)
    /\ UNCHANGED <<tagAccounts, tagFilter, deletingTag, showTagModal,
                   saveInFlight, rejected, varsNotTags>>
    /\ RunLogKept

\* the dialog's overlay, close and cancel buttons
DismissTagDeleteConfirm ==
    /\ tagDeleteConfirm # <<>>
    /\ ~deletingTag
    /\ tagDeleteConfirm' = <<>>
    /\ UNCHANGED <<tagAccounts, tagFilter, deletingTag, showTagModal,
                   saveInFlight, rejected, varsNotTags>>
    /\ RunLogKept

\* the ids of accounts.filter(acc => acc.tags.some(...)), in the order of accounts
RECURSIVE AffectedFrom(_, _, _)
AffectedFrom(snapshot, target, a) ==
    IF a > NumTagAccounts THEN <<>>
    ELSE (IF HasTag(snapshot[a], target) THEN <<a>> ELSE <<>>)
            \o AffectedFrom(snapshot, target, a + 1)

affectedAccounts(snapshot, target) == AffectedFrom(snapshot, target, 1)

\* newTags: with every tag compared as it is stored
newTags_RawCompare(tags, target) == SelectSeq(tags, LAMBDA t : t # target)

\* newTags = (acc.tags || []).filter((t) => normalizeTag(t) !== target)
newTags(tags, target) == SelectSeq(tags, LAMBDA t : normalizeTag(t) # target)

\* the call the loop issues for the k-th affected account
UpdateCall(snapshot, target, k) ==
    [ id   |-> affectedAccounts(snapshot, target)[k],
      tags |-> newTags(snapshot[affectedAccounts(snapshot, target)[k]], target) ]

\* the statements after the loop
TagFilterAfterDelete(target) ==
    SelectSeq(tagFilter, LAMBDA t : normalizeTag(t) # target)

confirmDeleteTagReturnsEarly == tagDeleteConfirm = <<>> \/ deletingTag

\* confirmDeleteTag up to its first await; with no affected account it runs to
\* its end
ConfirmDeleteTag ==
    /\ tagDeleteConfirm # <<>>
    /\ ~deletingTag     \* the dialog's confirm button is disabled meanwhile
    /\ ~confirmDeleteTagReturnsEarly
    /\ dtTarget' = tagDeleteConfirm[1].tag
    /\ dtSnapshot' = tagAccounts
    /\ dtSettled' = 0
    /\ IF affectedAccounts(tagAccounts, tagDeleteConfirm[1].tag) = <<>>
       THEN /\ dtCalls' = <<>>
            /\ dtOutcome' = "done"
            /\ tagFilter' = TagFilterAfterDelete(tagDeleteConfirm[1].tag)
            /\ tagDeleteConfirm' = <<>>
            /\ deletingTag' = FALSE
       ELSE /\ dtCalls' = << UpdateCall(tagAccounts, tagDeleteConfirm[1].tag, 1) >>
            /\ dtOutcome' = "running"
            /\ deletingTag' = TRUE
            /\ UNCHANGED <<tagFilter, tagDeleteConfirm>>
    /\ UNCHANGED <<tagAccounts, showTagModal, saveInFlight, rejected, varsNotTags>>

\* the store's updateAccountTags resolves: the account carries the saved tags
StoreUpdateAccountTags(call) == [tagAccounts EXCEPT ![call.id] = call.tags]

\* the awaited updateAccountTags resolves: the loop goes on to the next affected
\* account of its snapshot, or the handler finishes
UpdateTagsResolves ==
    /\ dtOutcome = "running"
    /\ tagAccounts' = StoreUpdateAccountTags(dtCalls[Len(dtCalls)])
    /\ dtSettled' = dtSettled + 1
    /\ IF Len(dtCalls) < Len(affectedAccounts(dtSnapshot, dtTarget))
       THEN /\ dtCalls' = Append(dtCalls, UpdateCall(dtSnapshot, dtTarget, Len(dtCalls) + 1))
            /\ UNCHANGED <<dtOutcome, tagFilter, tagDeleteConfirm, deletingTag>>
       ELSE /\ dtOutcome' = "done"
            /\ tagFilter' = TagFilterAfterDelete(dtTarget)
            /\ tagDeleteConfirm' = <<>>
            /\ deletingTag' = FALSE
            /\ UNCHANGED dtCalls
    /\ UNCHANGED <<showTagModal, saveInFlight, dtTarget, dtSnapshot, rejected,
                   varsNotTags>>

\* the rejection leaving confirmDeleteTag without its finally block
UpdateTagsRejects_NoFinally ==
    /\ dtOutcome = "running"
    /\ dtOutcome' = "failed"
    /\ rejected' = rejected \cup {"confirmDeleteTag"}
    /\ UNCHANGED <<tagAccounts, tagFilter, tagDeleteConfirm, deletingTag, showTagModal,
                   saveInFlight, dtTarget, dtSnapshot, dtCalls, dtSettled,
                   varsNotTags>>

\* the awaited updateAccountTags rejects: finally, and the rejection leaves
\* confirmDeleteTag
UpdateTagsRejects ==
    /\ dtOutcome = "running"
    /\ dtOutcome' = "failed"
    /\ deletingTag' = FALSE
    /\ rejected' = rejected \cup {"confirmDeleteTag"}
    /\ UNCHANGED <<tagAccounts, tagFilter, tagDeleteConfirm, showTagModal,
                   saveInFlight, dtTarget, dtSnapshot, dtCalls, dtSettled,
                   varsNotTags>>

OpenTagModal(accountId) ==
    /\ NoTagDialogShown
    /\ showTagModal' = accountId
    /\ UNCHANGED <<tagAccounts, tagFilter, tagDeleteConfirm, deletingTag,
                   saveInFlight, rejected, varsNotTags>>
    /\ RunLogKept

\* TagEditModal's onClose
CloseTagModal ==
    /\ showTagModal # NoAccount
    /\ showTagModal' = NoAccount
    /\ UNCHANGED <<tagAccounts, tagFilter, tagDeleteConfirm, deletingTag,
                   saveInFlight, rejected, varsNotTags>>
    /\ RunLogKept

\* handleSaveTags up to its await (one save pending at a time here)
HandleSaveTags(tags) ==
    /\ showTagModal # NoAccount
    /\ saveInFlight = <<>>
    /\ saveInFlight' = << [id |-> showTagModal, tags |-> tags] >>
    /\ UNCHANGED <<tagAccounts, tagFilter, tagDeleteConfirm, deletingTag,
                   showTagModal, rejected, varsNotTags>>
    /\ RunLogKept

SaveResolves ==
    /\ saveInFlight # <<>>
    /\ tagAccounts' = StoreUpdateAccountTags(saveInFlight[1])
    /\ showTagModal' = NoAccount
    /\ saveInFlight' = <<>>
    /\ UNCHANGED <<tagFilter, tagDeleteConfirm, deletingTag, rejected,
                   varsNotTags>>
    /\ RunLogKept

\* handleSaveTags has no catch
SaveRejects ==
    /\ saveInFlight # <<>>
    /\ saveInFlight' = <<>>
    /\ rejected' = rejected \cup {"handleSaveTags"}
    /\ UNCHANGED <<tagAccounts, tagFilter, tagDeleteConfirm, deletingTag,
                   showTagModal, varsNotTags>>
    /\ RunLogKept

InitTags ==
    /\ InitOauthVars /\ InitDeleteVars /\ InitRefreshVars /\ InitOtherVars
    /\ tagAccounts \in [TagAccountIds -> TagLists]
    /\ InitTagState

NextTags ==
    \/ \E tag \in {TagWork, TagHome} : ToggleTagFilterValue(tag)
    \/ ClearTagFilter
    \/ \E tag \in {TagWork, TagHome} : RequestDeleteTag(tag)
    \/ DismissTagDeleteConfirm
    \/ ConfirmDeleteTag
    \/ UpdateTagsResolves
    \/ UpdateTagsRejects
    \/ \E id \in TagAccountIds : OpenTagModal(id)
    \/ CloseTagModal
    \/ \E tags \in SavedTagLists : HandleSaveTags(tags)
    \/ SaveResolves
    \/ SaveRejects

SpecTags == InitTags /\ [][NextTags]_vars

\* a step on which a run of confirmDeleteTag ends without a backend failure
DeleteTagCompletes ==
    dtOutcome' = "done" /\ (dtOutcome = "running" \/ ConfirmDeleteTag)

\* the positions of the call log that name account a
CallsFor(calls, a) == { k \in 1..Len(calls) : calls[k].id = a }

\* C9: when confirmDeleteTag for tag T ends without a backend failure,
\* updateAccountTags has been called exactly once for each account whose tag
\* list held a tag normalizing to T, with that account's tags minus those
\* tags, and for no other account; T is no longer in the tag filter,
\* tagDeleteConfirm is null and deletingTag is false; and at no time is more
\* than one of the calls pending.
C9_DeleteTagSuccessPath ==
    /\ [](Len(dtCalls) - dtSettled <= 1)
    /\ [][ DeleteTagCompletes =>
            /\ \A a \in TagAccountIds :
                 IF \E k \in 1..Len(dtSnapshot'[a]) :
                        lowerAll(trim(dtSnapshot'[a][k])) = dtTarget'
                 THEN /\ Cardinality(CallsFor(dtCalls', a)) = 1
                      /\ \A k \in CallsFor(dtCalls', a) :
                           dtCalls'[k].tags =
                             SelectSeq(dtSnapshot'[a],
                                       LAMBDA t : lowerAll(trim(t)) # dtTarget')
                 ELSE CallsFor(dtCalls', a) = {}
            /\ dtSettled' = Len(dtCalls')
            /\ \A k \in 1..Len(tagFilter') : lowerAll(trim(tagFilter'[k])) # dtTarget'
            /\ tagDeleteConfirm' = <<>>
            /\ ~deletingTag' ]_vars

\* a run that removed the tag from two accounts, one of which carried it
\* un-normalized, and from the tag filter
C9_Witness ==
    /\ dtOutcome = "done"
    /\ Len(dtCalls) = 2
    /\ \E a \in TagAccountIds : dtSnapshot[a] = <<TagWorkRaw, TagHome>>
    /\ \E k \in 1..Len(dtCalls) : dtCalls[k].tags = <<TagHome>>
    /\ tagFilter = <<TagHome>>

\* the awaited updateAccountTags of a confirmDeleteTag run fails
DeleteTagFails == dtOutcome = "running" /\ dtOutcome' = "failed"

\* C19: when updateAccountTags fails during confirmDeleteTag, the accounts
\* updated before keep their new tags, the failed call is the last one of the
\* run, the tag filter and tagDeleteConfirm are as they were, with the tag
\* still to confirm, and deletingTag is false, so that confirmDeleteTag can
\* run again.
C19_DeleteTagFailureLeavesPartialState ==
    /\ [][ DeleteTagFails =>
            /\ tagAccounts' = tagAccounts
            /\ dtCalls' = dtCalls
            /\ Len(dtCalls) = dtSettled + 1
            /\ tagFilter' = tagFilter
            /\ tagDeleteConfirm' = tagDeleteConfirm
            /\ tagDeleteConfirm' # <<>>
            /\ tagDeleteConfirm'[1].tag = dtTarget
            /\ ~deletingTag' ]_vars
    /\ [][ (dtOutcome = "failed" /\ dtCalls' # <<>>)
              => (dtOutcome' = "running" /\ Len(dtCalls') = 1 /\ dtSettled' = 0) ]_vars
    /\ [](dtOutcome = "failed" => (tagDeleteConfirm # <<>> /\ ~deletingTag))

\* the second updateAccountTags of a run failed: the first account has lost
\* the tag, the second still carries it, and the tag is still in the filter
C19_Witness ==
    /\ dtOutcome = "failed"
    /\ dtSettled = 1
    /\ Len(dtCalls) = 2
    /\ \A k \in 1..Len(tagAccounts[dtCalls[1].id]) :
          normalizeTag(tagAccounts[dtCalls[1].id][k]) # dtTarget
    /\ \E k \in 1..Len(tagAccounts[dtCalls[2].id]) :
          normalizeTag(tagAccounts[dtCalls[2].id][k]) = dtTarget
    /\ \E k \in 1..Len(tagFilter) : normalizeTag(tagFilter[k]) = dtTarget
    /\ tagDeleteConfirm # <<>>


\* a step on which confirmDeleteTag issues its call for the next affected account
DeleteTagCallIssued == dtOutcome' = "running" /\ Len(dtCalls') = Len(dtCalls) + 1

\* C26: confirmDeleteTag removes only the deleted tag: the updateAccountTags
\* call it issues for an account carries the tags that account has at that
\* time without the deleted tag, so that a tag edit that landed on the
\* account after the deletion started and before its turn is kept.
C26_DeleteTagKeepsLaterEdits ==
    [][ DeleteTagCallIssued =>
          LET issued == dtCalls'[Len(dtCalls')]
          IN issued.tags = SelectSeq(tagAccounts'[issued.id],
                                     LAMBDA t : lowerAll(trim(t)) # dtTarget') ]_vars


\* C28: every tag of the active tag filter is one of availableTags, the
\* normalized non-empty tags some account still carries, after any sequence
\* of filter toggles, clears, tag saves and tag deletions.
C28_TagFilterWithinAvailableTags ==
    \A k \in 1..Len(tagFilter) : tagFilter[k] \in availableTags


(***************************************************************************)
(* The current account (SpecCurrent).                                      *)
(*                                                                         *)
(* A state change schedules a render; a render fixes the values its        *)
(* effects will see; the effects of a render run before the next render.   *)
(***************************************************************************)
\* the useState initializer of currentAccountId: the stored entry, or null
InitialCurrentAccountId(stored) == stored

\* the effects of one render, on the values that render saw: the prune effect
\* queues setCurrentAccountId(null), the persist effect writes local storage
PruneEffectSetsNull(r) ==
    r.currentAccountId # NoAccount /\ r.currentAccountId \notin r.accounts

\* the persist effect writing nothing
PersistEffect_Skipped(r) == storedAccountId

\* localStorage.setItem(key, id) / removeItem(key)
PersistEffect(r) == r.currentAccountId

\* the passive effects of the last render
FlushedCurrent == IF passivePending /\ PruneEffectSetsNull(rendered)
                  THEN NoAccount ELSE currentAccountId
FlushedStored == IF passivePending THEN PersistEffect(rendered) ELSE storedAccountId

FlushPassiveEffects ==
    /\ passivePending
    /\ currentAccountId' = FlushedCurrent
    /\ storedAccountId' = FlushedStored
    /\ passivePending' = FALSE
    /\ renderPending' = (renderPending \/ FlushedCurrent # currentAccountId)
    /\ UNCHANGED <<rendered, injecting, injectInFlight, accounts, message>>
    /\ UNCHANGED varsNotCurrent

\* React renders: the effects still pending run first
Render ==
    /\ renderPending
    /\ currentAccountId' = FlushedCurrent
    /\ storedAccountId' = FlushedStored
    /\ rendered' = [currentAccountId |-> FlushedCurrent, accounts |-> accounts]
    /\ renderPending' = FALSE
    /\ passivePending' = TRUE
    /\ UNCHANGED <<injecting, injectInFlight, accounts, message>>
    /\ UNCHANGED varsNotCurrent

\* the store's accounts list is replaced by a fetch
AccountsFetched(list) ==
    /\ list # accounts
    /\ accounts' = list
    /\ renderPending' = TRUE
    /\ UNCHANGED <<currentAccountId, storedAccountId, rendered, passivePending,
                   injecting, injectInFlight, message>>
    /\ UNCHANGED varsNotCurrent

\* a deletion: the store re-fetches the list without the deleted accounts
AccountsDeleted(ids) ==
    /\ ids # {}
    /\ ids \subseteq accounts
    /\ accounts' = accounts \ ids
    /\ renderPending' = TRUE
    /\ UNCHANGED <<currentAccountId, storedAccountId, rendered, passivePending,
                   injecting, injectInFlight, message>>
    /\ UNCHANGED varsNotCurrent

\* handleInjectToVSCode up to its await; the page shows the button on the rows
\* of the rendered accounts and disables it while injecting is set
HandleInjectToVSCode(accountId) ==
    /\ accountId \in rendered.accounts
    /\ injecting = NoAccount
    /\ injectInFlight = NoAccount
    /\ message' = "none"
    /\ injecting' = accountId
    /\ injectInFlight' = accountId
    /\ renderPending' = TRUE
    /\ UNCHANGED <<currentAccountId, storedAccountId, rendered, passivePending,
                   accounts>>
    /\ UNCHANGED varsNotCurrent

InjectResolves ==
    /\ injectInFlight # NoAccount
    /\ currentAccountId' = injectInFlight
    /\ message' = "ok"
    /\ injecting' = NoAccount
    /\ injectInFlight' = NoAccount
    /\ renderPending' = TRUE
    /\ UNCHANGED <<storedAccountId, rendered, passivePending, accounts>>
    /\ UNCHANGED varsNotCurrent

InjectRejects ==
    /\ injectInFlight # NoAccount
    /\ message' = "error"
    /\ injecting' = NoAccount
    /\ injectInFlight' = NoAccount
    /\ renderPending' = TRUE
    /\ UNCHANGED <<currentAccountId, storedAccountId, rendered, passivePending,
                   accounts>>
    /\ UNCHANGED varsNotCurrent

\* the hook mounts: the entry in local storage is absent or names any account,
\* the store holds any list, and the first render has happened
InitCurrent ==
    /\ InitOauthVars /\ InitRefreshVars /\ InitTagVars /\ InitUtilVars /\ InitMountVars
    /\ InitPagesVars
    /\ selected = {} /\ deleteConfirm = <<>> /\ deleting = FALSE
    /\ deleteInFlight = <<>> /\ exporting = FALSE /\ message = "none"
    /\ rejected = {}
    /\ accounts \in SUBSET AccountIds
    /\ storedAccountId \in AccountIds \cup {NoAccount}
    /\ currentAccountId = InitialCurrentAccountId(storedAccountId)
    /\ rendered = [currentAccountId |-> currentAccountId, accounts |-> accounts]
    /\ renderPending = FALSE
    /\ passivePending = TRUE
    /\ injecting = NoAccount
    /\ injectInFlight = NoAccount

NextCurrent ==
    \/ FlushPassiveEffects
    \/ Render
    \/ \E list \in SUBSET AccountIds : AccountsFetched(list)
    \/ \E ids \in SUBSET AccountIds : AccountsDeleted(ids)
    \/ \E id \in AccountIds : HandleInjectToVSCode(id)
    \/ InjectResolves
    \/ InjectRejects

SpecCurrent == InitCurrent /\ [][NextCurrent]_vars

MountFetchResolves ==
    /\ mountFetch # <<>>
    /\ accounts' = mountFetch[1]
    /\ mountFetch' = <<>>
    /\ renderPending' = TRUE
    /\ UNCHANGED <<currentAccountId, storedAccountId, rendered, passivePending,
                   injecting, injectInFlight, message>>
    /\ UNCHANGED <<selected, deleteConfirm, deleting, deleteInFlight, exporting,
                   rejected, varsOauth, varsRefresh, varsTags, varsUtil, varsPages>>

\* the store's initial accounts list is empty; local storage holds no entry or
\* any id; the backend will answer the first fetch with any list
InitMount ==
    /\ InitOauthVars /\ InitRefreshVars /\ InitTagVars /\ InitUtilVars /\ InitPagesVars
    /\ selected = {} /\ deleteConfirm = <<>> /\ deleting = FALSE
    /\ deleteInFlight = <<>> /\ exporting = FALSE /\ message = "none"
    /\ rejected = {}
    /\ accounts = {}
    /\ mountFetch \in { <<list>> : list \in SUBSET AccountIds }
    /\ storedAccountId \in AccountIds \cup {NoAccount}
    /\ currentAccountId = InitialCurrentAccountId(storedAccountId)
    /\ rendered = [currentAccountId |-> currentAccountId, accounts |-> accounts]
    /\ renderPending = FALSE
    /\ passivePending = TRUE
    /\ injecting = NoAccount
    /\ injectInFlight = NoAccount

NextMount ==
    \/ MountFetchResolves
    \/ NextCurrent

SpecMount == InitMount /\ [][NextMount]_vars

\* C21: while the first fetchAccounts is pending and the accounts list is
\* still empty, a current-account id that the fetch will bring is not set to
\* null and its entry in local storage is not removed.
C21_RestoredIdSurvivesEmptyList ==
    [][ ( /\ mountFetch # <<>>
          /\ accounts = {}
          /\ currentAccountId # NoAccount
          /\ currentAccountId \in mountFetch[1] )
          => /\ currentAccountId' # NoAccount
             /\ storedAccountId # NoAccount => storedAccountId' # NoAccount ]_vars


(***************************************************************************)
(* The import handlers of the add-modal (SpecImport).                      *)
(*                                                                         *)
(* importPhase: "none", "backend" (the import call pending) or "fetching"  *)
(* (fetchAccounts pending); importKind: the handler and, for the token     *)
(* handler, the call it chose.                                             *)
(***************************************************************************)
\* what the user may have typed in the token box, as characters
TokenInputs == { <<>>, <<" ">>, <<" ", "{">>, <<"t", " ">> }

ImportCounts == 0..MaxImported

\* trimmed.startsWith('{') || trimmed.startsWith('[')
LooksLikeJson(trimmed) == trimmed # <<>> /\ Head(trimmed) \in {"{", "["}

\* setImporting(true); setAddStatus('loading'); setAddMessage(importing...)
StartImport(s, kind) ==
    [s EXCEPT !.importing = TRUE,
              !.addStatus = "loading",
              !.addMessage = "importing",
              !.importKind = kind,
              !.importPhase = "backend"]

\* handleTokenImport up to its first await
handleTokenImport(s) ==
    IF trim(s.tokenInput) = <<>>
    THEN [s EXCEPT !.addStatus = "error", !.addMessage = "tokenEmpty"]
    ELSE StartImport(s, IF LooksLikeJson(trim(s.tokenInput))
                        THEN "tokenJson" ELSE "tokenPlain")

\* the import call resolved with `count` accounts: fetchAccounts is awaited
ImportBackendThen(s, count) ==
    [s EXCEPT !.importPhase = "fetching",
              !.importCount = IF s.importKind = "tokenPlain" THEN 1 ELSE count]

\* after fetchAccounts: success, the count message, the auto-close timer
ImportSucceeded(s) ==
    [s EXCEPT !.addStatus = "success",
              !.addMessage = "imported",
              !.addMessageCount = s.importCount,
              !.timers = @ + 1,
              !.importing = FALSE,
              !.importKind = "none",
              !.importPhase = "none",
              !.importCount = 0]

\* the catch block, then setImporting(false)
ImportFailed(s) ==
    [s EXCEPT !.addStatus = "error",
              !.addMessage = IF s.importKind \in {"tokenJson", "tokenPlain"}
                             THEN "tokenImportFailed" ELSE "importFailed",
              !.importing = FALSE,
              !.importKind = "none",
              !.importPhase = "none",
              !.importCount = 0]

\* the user types in the token box
SetTokenInput(value) ==
    /\ oauth.showAddModal /\ oauth.addTab = "token"
    /\ value # oauth.tokenInput
    /\ UserEvent([oauth EXCEPT !.tokenInput = value])

\* the token tab's import button (disabled while importing)
HandleTokenImport ==
    /\ oauth.showAddModal /\ oauth.addTab = "token"
    /\ ~oauth.importing
    /\ UserEvent(handleTokenImport(oauth))

\* a file picked on the import tab (the pick button is disabled while importing)
HandleImportJsonFile ==
    /\ oauth.showAddModal /\ oauth.addTab = "import"
    /\ ~oauth.importing
    /\ UserEvent(StartImport(oauth, "file"))

\* the import tab's import-from-local button (disabled while importing)
HandleImportFromLocal ==
    /\ oauth.showAddModal /\ oauth.addTab = "import"
    /\ ~oauth.importing
    /\ UserEvent(StartImport(oauth, "local"))

ImportBackendResolves ==
    /\ oauth.importPhase = "backend"
    /\ \E count \in ImportCounts : CallbackWithFetch(ImportBackendThen(oauth, count))

\* file.text(), or the import call, rejects
ImportBackendRejects ==
    /\ oauth.importPhase = "backend"
    /\ Callback(ImportFailed(oauth))

ImportFetchResolves ==
    /\ oauth.importPhase = "fetching"
    /\ CallbackWithFetch(ImportSucceeded(oauth))

InitImport == InitOauth

NextImport ==
    \/ \E tab \in {"token", "import"} : OpenAddModal(tab)
    \/ CloseAddModal
    \/ \E value \in TokenInputs : SetTokenInput(value)
    \/ HandleTokenImport
    \/ HandleImportJsonFile
    \/ HandleImportFromLocal
    \/ ImportBackendResolves
    \/ ImportBackendRejects
    \/ ImportFetchResolves
    \/ AutoCloseTimerFires
    \/ RunEffects

SpecImport == InitImport /\ [][NextImport]_vars

\* C12: an import handler sets addStatus to loading when it starts and to
\* exactly one of success or error when it settles; loading is never left
\* behind by a settled import; on success (after the re-fetch) the message
\* carries the imported count and the auto-close timer is scheduled; on
\* failure addStatus is error with the failure message, no timer is scheduled,
\* and the modal showing the error stays open until the user closes it;
\* importing is true exactly while an import is in flight; the token handler
\* with blank input sets the error state and calls no backend.
C12_ImportPhases ==
    /\ [](oauth.importing <=> oauth.importPhase # "none")
    /\ [](oauth.addStatus = "loading" => oauth.importPhase # "none")
    /\ [][ /\ (oauth.importPhase = "none" /\ oauth'.importPhase = "backend")
                => oauth'.addStatus = "loading"
           /\ (oauth.importPhase = "fetching" /\ oauth'.importPhase = "none")
                => /\ oauth'.addStatus = "success"
                   /\ oauth'.addMessage = "imported"
                   /\ oauth'.addMessageCount = oauth.importCount
                   /\ oauth'.timers = oauth.timers + 1
           /\ (oauth.importPhase = "backend" /\ oauth'.importPhase = "none")
                => /\ oauth'.addStatus = "error"
                   /\ oauth'.addMessage \in {"importFailed", "tokenImportFailed"}
                   /\ oauth'.timers = oauth.timers
                   /\ oauth'.showAddModal = oauth.showAddModal
           /\ (HandleTokenImport /\ lowerAll(trim(oauth.tokenInput)) = <<>>)
                => /\ oauth'.addStatus = "error"
                   /\ oauth'.importPhase = "none"
           /\ ( /\ oauth.showAddModal
                /\ oauth.addStatus = "error"
                /\ oauth.addMessage \in {"importFailed", "tokenImportFailed"}
                /\ ~oauth'.showAddModal )
                => CloseAddModal ]_vars

\* ------------------------------------------------------------------
\* The presentation builders of stores/useCodexAccountStore.ts.
\* A value of the account data is a record: a number, null or NaN.  A
\* percentage is counted in tenths of a percent, so that a raw 33.5 is the
\* number 335; credits are whole numbers.
\* ------------------------------------------------------------------
MaxModels == 2

Null == [kind |-> "null", n |-> 0]
NaN == [kind |-> "nan", n |-> 0]
Num(n) == [kind |-> "num", n |-> n]

\* raw percentages, in tenths: -5, 0, 0.4, 33.5, 100 and 150 percent
RawPercents == { Num(0 - 50), Num(0), Num(4), Num(335), Num(1000), Num(1500) }
CopilotPercents == RawPercents \cup { Null, NaN }
CreditValues == { Null, NaN, Num(0 - 1), Num(0), Num(2), Num(3) }
CreditTriples == [used : CreditValues, total : CreditValues, left : CreditValues]

SeqsUpTo(S, n) == UNION { [1..k -> S] : k \in 0..n }

toFiniteNumber(value) == IF value.kind = "num" THEN value ELSE Null

\* Math.round of num/den for den > 0: the nearest integer, halves upwards
MathRound(num, den) == (2 * num + den) \div (2 * den)

\* clampPercent of the finite value num/den (den > 0), as a whole percent
clampPercent(num, den) ==
    IF num <= 0 THEN 0
    ELSE IF num >= 100 * den THEN 100
    ELSE MathRound(num, den)

OrZero(value) == IF value.kind = "null" THEN 0 ELSE value.n

buildCreditMetrics(used, total, left) ==
    LET safeUsed == toFiniteNumber(used)
        safeTotal == toFiniteNumber(total)
        safeLeft == toFiniteNumber(left)
        usedPercent ==
            IF safeTotal.kind = "num" /\ safeTotal.n > 0
            THEN IF safeUsed.kind = "num"
                 THEN clampPercent(safeUsed.n * 100, safeTotal.n)
                 ELSE IF safeLeft.kind = "num"
                      THEN clampPercent((safeTotal.n - safeLeft.n) * 100, safeTotal.n)
                      ELSE 0
            ELSE 0
    IN [usedPercent |-> usedPercent, used |-> OrZero(safeUsed),
        total |-> OrZero(safeTotal), left |-> OrZero(safeLeft)]

\* a quota item of a presentation; its percentage is in tenths of a percent
Metric(key, tenths) == [key |-> key, percentage |-> tenths]

\* models: the percentages of getDisplayModels(account.quota); groupQuotas:
\* what calculateGroupQuota returns for each display group, null included
getAntigravityQuotaDisplayItems(models, groupQuotas) ==
    LET raw == [k \in 1..Len(models) |-> Metric("model", models[k].n)]
        grouped == SelectSeq(groupQuotas, LAMBDA q : q.kind # "null")
    IN IF Len(models) = 0 THEN <<>>
       ELSE IF Len(groupQuotas) = 0 THEN raw
       ELSE IF Len(grouped) > 0
            THEN [k \in 1..Len(grouped) |-> Metric("group", grouped[k].n)]
            ELSE raw

buildAntigravityAccountPresentation(models, groupQuotas) ==
    LET items == getAntigravityQuotaDisplayItems(models, groupQuotas)
    IN [quotaItems |-> [k \in 1..Len(items) |-> Metric(items[k].key, items[k].percentage)]]

\* windows: the percentages of the windows of getCodexQuotaWindows(account.quota)
buildCodexAccountPresentation(windows) ==
    [quotaItems |-> [k \in 1..Len(windows) |-> Metric("window", windows[k].n)]]

Max(a, b) == IF a >= b THEN a ELSE b
Min(a, b) == IF a <= b THEN a ELSE b

buildCopilotMetric(percentage, included) ==
    IF included THEN 10 * 100
    ELSE IF percentage.kind # "num" THEN 0
    ELSE 10 * Max(0, Min(100, MathRound(percentage.n, 10)))

buildGitHubCopilotAccountPresentation(usage) ==
    [quotaItems |->
        << Metric("inline", buildCopilotMetric(usage.inlinePercent, usage.inlineIncluded)),
           Metric("chat", buildCopilotMetric(usage.chatPercent, usage.chatIncluded)),
           Metric("premium", buildCopilotMetric(usage.premiumPercent, usage.premiumIncluded)) >>]

CreditMetric(key, credits) ==
    Metric(key, 10 * buildCreditMetrics(credits.used, credits.total, credits.left).usedPercent)

buildWindsurfAccountPresentation(prompt, addOn) ==
    [quotaItems |-> << CreditMetric("prompt", prompt), CreditMetric("addon", addOn) >>]

shouldShowKiroAddOn(addOnMetrics, bonusExpireDays) ==
    \/ addOnMetrics.left > 0
    \/ addOnMetrics.used > 0
    \/ addOnMetrics.total > 0
    \/ (bonusExpireDays.kind = "num" /\ bonusExpireDays.n > 0)

buildKiroAccountPresentation(prompt, addOn, bonusExpireDays) ==
    LET addOnMetrics == buildCreditMetrics(addOn.used, addOn.total, addOn.left)
    IN [quotaItems |->
          IF shouldShowKiroAddOn(addOnMetrics, bonusExpireDays)
          THEN << CreditMetric("prompt", prompt), CreditMetric("addon", addOn) >>
          ELSE << CreditMetric("prompt", prompt) >>]

\* the accounts the builders are applied to
BuilderCalls ==
    [fn : {"antigravity"}, models : SeqsUpTo(RawPercents, MaxModels),
       groupQuotas : SeqsUpTo(RawPercents \cup {Null}, MaxModels)]
    \cup [fn : {"codex"}, windows : SeqsUpTo(RawPercents, MaxModels)]
    \cup [fn : {"copilot"},
          usage : [inlinePercent : CopilotPercents, inlineIncluded : BOOLEAN,
                   chatPercent : {Null, Num(335)}, chatIncluded : BOOLEAN,
                   premiumPercent : {NaN, Num(1500)}, premiumIncluded : {FALSE}]]
    \cup [fn : {"windsurf"}, prompt : CreditTriples, addOn : {[used |-> Num(3), total |-> Num(2), left |-> Null]}]
    \cup [fn : {"kiro"}, prompt : {[used |-> Null, total |-> Num(3), left |-> Num(2)]},
          addOn : CreditTriples, bonusExpireDays : {Null, Num(2)}]

Returns(fn, value) ==
    /\ fnCall.fn = fn
    /\ result = <<>>
    /\ result' = <<value>>
    /\ UNCHANGED <<fnCall, varsNotUtil>>

BuildAntigravity ==
    Returns("antigravity", buildAntigravityAccountPresentation(fnCall.models, fnCall.groupQuotas))
BuildCodex == Returns("codex", buildCodexAccountPresentation(fnCall.windows))
BuildCopilot == Returns("copilot", buildGitHubCopilotAccountPresentation(fnCall.usage))
BuildWindsurf == Returns("windsurf", buildWindsurfAccountPresentation(fnCall.prompt, fnCall.addOn))
BuildKiro ==
    Returns("kiro", buildKiroAccountPresentation(fnCall.prompt, fnCall.addOn, fnCall.bonusExpireDays))

InitBuilders ==
    /\ InitOauthVars /\ InitDeleteVars /\ InitRefreshVars /\ InitTagVars /\ InitCurrentVars
    /\ InitMountVars /\ InitPagesVars
    /\ fnCall \in BuilderCalls
    /\ result = <<>>

NextBuilders ==
    \/ BuildAntigravity
    \/ BuildCodex
    \/ BuildCopilot
    \/ BuildWindsurf
    \/ BuildKiro

SpecBuilders == InitBuilders /\ [][NextBuilders]_vars

BuiltBy(fns) == fnCall.fn \in fns /\ result # <<>>

PercentagesWholeAndInRange ==
    \A k \in 1..Len(result[1].quotaItems) :
        /\ result[1].quotaItems[k].percentage % 10 = 0
        /\ result[1].quotaItems[k].percentage \in 0..1000

\* C15: every quota item of a presentation built by any of the five
\* builders has a percentage that is a whole number between 0 and 100.
C15_PercentageIsIntegerInRange ==
    BuiltBy({"antigravity", "codex", "copilot", "windsurf", "kiro"})
        => PercentagesWholeAndInRange

\* ------------------------------------------------------------------
\* The parsing helpers of unnamed/part_004.  A string is a sequence of
\* one-character strings.  A number is kept as thousands and units
\* (n = th * 1000 + un, 0 <= un < 1000) with its sign and whether it has a
\* fractional part, so that values around 10^12 stay within the integers of
\* the checker.
\* ------------------------------------------------------------------
MaxPathLen == 3

DigitChars == <<"0", "1", "2", "3", "4", "5", "6", "7", "8", "9">>
IsDigit(c) == \E k \in 1..10 : DigitChars[k] = c
DigitOf(c) == (CHOOSE k \in 1..10 : DigitChars[k] = c) - 1
AllDigits(ds) == \A k \in 1..Len(ds) : IsDigit(ds[k])

Front(seq) == SubSeq(seq, 1, Len(seq) - 1)

RECURSIVE DecimalOf(_)
DecimalOf(ds) ==
    IF ds = <<>> THEN [th |-> 0, un |-> 0]
    ELSE LET p == DecimalOf(Front(ds))
             u == p.un * 10 + DigitOf(ds[Len(ds)])
         IN [th |-> p.th * 10 + u \div 1000, un |-> u % 1000]

NotNumber == [kind |-> "nan", neg |-> FALSE, th |-> 0, un |-> 0, frac |-> FALSE]

\* Number(string): white space is trimmed, the empty string is 0, then an
\* optional sign, digits, and an optional point with digits
NumberOf(str) ==
    LET t == trim(str)
        signed == Len(t) > 0 /\ t[1] \in {"-", "+"}
        body == IF signed THEN Tail(t) ELSE t
        dots == { k \in 1..Len(body) : body[k] = "." }
        dot == IF dots = {} THEN Len(body) + 1
               ELSE CHOOSE k \in dots : \A j \in dots : k <= j
        whole == SubSeq(body, 1, dot - 1)
        fraction == SubSeq(body, dot + 1, Len(body))
        value == DecimalOf(whole)
    IN IF t = <<>> THEN [NotNumber EXCEPT !.kind = "num"]
       ELSE IF AllDigits(whole) /\ AllDigits(fraction) /\ Len(whole) + Len(fraction) > 0
            THEN [kind |-> "num", neg |-> t[1] = "-", th |-> value.th, un |-> value.un,
                  frac |-> \E k \in 1..Len(fraction) : fraction[k] # "0"]
            ELSE NotNumber

IsZero(num) == num.th = 0 /\ num.un = 0 /\ ~num.frac
IsNegative(num) == num.neg /\ ~IsZero(num)
NumberIsInteger(num) == num.kind = "num" /\ ~num.frac

\* the values getPathValue walks: items holds the elements of an array and
\* the [key, value] entries of an object
Undefined == [kind |-> "undefined", n |-> 0, items |-> <<>>]
JsonNull == [kind |-> "null", n |-> 0, items |-> <<>>]
JsonNumber(n) == [kind |-> "number", n |-> n, items |-> <<>>]
JsonString == [kind |-> "string", n |-> 0, items |-> <<>>]
JsonArray(items) == [kind |-> "array", n |-> 0, items |-> items]
Entry(key, value) == [key |-> key, value |-> value]
JsonObject(entries) == [kind |-> "object", n |-> 0, items |-> entries]

isRecord(value) == value.kind = "object"

HasKey(object, key) == \E k \in 1..Len(object.items) : object.items[k].key = key

\* current[key] of an object: undefined when it has no such property
Property(object, key) ==
    IF HasKey(object, key)
    THEN object.items[CHOOSE k \in 1..Len(object.items) : object.items[k].key = key].value
    ELSE Undefined

RECURSIVE getPathValue(_, _)
getPathValue(current, path) ==
    IF path = <<>> THEN current
    ELSE IF current.kind = "array"
         THEN LET index == NumberOf(Head(path))
              IN IF \/ ~NumberIsInteger(index)
                    \/ IsNegative(index)
                    \/ index.th * 1000 + index.un >= Len(current.items)
                 THEN JsonNull
                 ELSE getPathValue(current.items[index.th * 1000 + index.un + 1], Tail(path))
         ELSE IF ~isRecord(current) THEN JsonNull
              ELSE getPathValue(Property(current, Head(path)), Tail(path))

\* { a: [ { b: 7 }, 5 ], c: null }
Document ==
    JsonObject(<< Entry(<<"a">>, JsonArray(<< JsonObject(<< Entry(<<"b">>, JsonNumber(7)) >>),
                                             JsonNumber(5) >>)),
                  Entry(<<"c">>, JsonNull) >>)
Roots == { Document, Undefined, JsonNull, JsonNumber(5), JsonString,
           JsonArray(<< JsonNumber(5) >>) }
PathKeys == { <<"a">>, <<"b">>, <<"c">>, <<"0">>, <<"1">>, <<"2">>, <<"-", "1">>,
              <<"1", ".", "5">>, <<>> }
PathCalls == [fn : {"getPathValue"}, root : Roots, path : SeqsUpTo(PathKeys, MaxPathLen)]

GetPathValue == Returns("getPathValue", getPathValue(fnCall.root, fnCall.path))

InitPath ==
    /\ InitOauthVars /\ InitDeleteVars /\ InitRefreshVars /\ InitTagVars /\ InitCurrentVars
    /\ InitMountVars /\ InitPagesVars
    /\ fnCall \in PathCalls
    /\ result = <<>>

NextPath == GetPathValue

SpecPath == InitPath /\ [][NextPath]_vars

\* the path can be followed from the value: every key is an index the array
\* has or a key the object has
RECURSIVE CanFollow(_, _)
CanFollow(current, path) ==
    IF path = <<>> THEN TRUE
    ELSE LET index == NumberOf(Head(path))
         IN CASE current.kind = "array" ->
                   /\ NumberIsInteger(index) /\ ~IsNegative(index)
                   /\ index.th * 1000 + index.un < Len(current.items)
                   /\ CanFollow(current.items[index.th * 1000 + index.un + 1], Tail(path))
              [] current.kind = "object" ->
                   /\ HasKey(current, Head(path))
                   /\ CanFollow(Property(current, Head(path)), Tail(path))
              [] OTHER -> FALSE

\* C16: getPathValue returns, and it returns null whenever the path cannot
\* be followed from the root, whatever the position of the key that fails.
C16_UnfollowablePathGivesNull ==
    (fnCall.fn = "getPathValue" /\ result # <<>>)
        => (~CanFollow(fnCall.root, fnCall.path) => result[1] = JsonNull)

\* ------------------------------------------------------------------
\* normalizeTimestamp of unnamed/part_004
\* ------------------------------------------------------------------
MaxNesting == 1

Number(neg, th, un, frac) == [kind |-> "num", neg |-> neg, th |-> th, un |-> un, frac |-> frac]

\* the values normalizeTimestamp is given: num for a number, str for a
\* string, items for the [key, value] entries of a record
TsNumber(num) == [kind |-> "number", num |-> num, str |-> <<>>, items |-> <<>>]
TsNonFinite == [kind |-> "nonfinite", num |-> NotNumber, str |-> <<>>, items |-> <<>>]
TsNothing == [kind |-> "undefined", num |-> NotNumber, str |-> <<>>, items |-> <<>>]
TsString(str) == [kind |-> "string", num |-> NotNumber, str |-> str, items |-> <<>>]
TsRecord(entries) == [kind |-> "record", num |-> NotNumber, str |-> <<>>, items |-> entries]

\* what normalizeTimestamp returns: null, or whole seconds th * 1000 + un
NoTimestamp == [kind |-> "null", th |-> 0, un |-> 0]
Timestamp(th, un) == [kind |-> "num", th |-> th, un |-> un]

\* Date.parse of the one date string of the inputs, in milliseconds
DateString == <<"1", "9", "7", "0", "-", "0", "1", "-", "0", "2">>
DateParse(str) == IF str = DateString THEN Number(FALSE, 86400, 0, FALSE) ELSE NotNumber

IsPositive(num) == ~num.neg /\ ~IsZero(num)

SecondsOf_MillisAtThreshold(n) ==
    IF ~IsPositive(n) THEN NoTimestamp
    ELSE IF n.th >= 1000000000 THEN Timestamp(n.th \div 1000, n.th % 1000)
    ELSE Timestamp(n.th, n.un)

\* a finite number as seconds: nothing for n <= 0, n / 1000 floored above
\* 10^12, n floored otherwise
SecondsOf(n) ==
    IF ~IsPositive(n) THEN NoTimestamp
    ELSE IF n.th > 1000000000 \/ (n.th = 1000000000 /\ (n.un > 0 \/ n.frac))
         THEN Timestamp(n.th \div 1000, n.th % 1000)
         ELSE Timestamp(n.th, n.un)

\* toNumber of a value that is not a string
toNumber(value) == IF value.kind = "number" THEN value.num ELSE NotNumber

TsCandidates == <<"seconds", "unixSeconds", "unix", "timestamp", "value">>

\* value[key] of a record
TsProperty(record, key) ==
    IF \E k \in 1..Len(record.items) : record.items[k].key = key
    THEN record.items[CHOOSE k \in 1..Len(record.items) : record.items[k].key = key].value
    ELSE TsNothing

RECURSIVE normalizeTimestamp(_)
RECURSIVE FirstCandidate(_, _)
normalizeTimestamp(value) ==
    IF value.kind = "string"
    THEN LET trimmed == trim(value.str)
             asNumber == NumberOf(trimmed)
             parsed == DateParse(trimmed)
         IN IF trimmed = <<>> THEN NoTimestamp
            ELSE IF asNumber.kind = "num" THEN SecondsOf(asNumber)
            ELSE IF parsed.kind = "num" /\ IsPositive(parsed)
                 THEN Timestamp(parsed.th \div 1000, parsed.th % 1000)
                 ELSE NoTimestamp
    ELSE LET n == toNumber(value)
         IN IF n.kind = "num" THEN SecondsOf(n)
            ELSE IF value.kind = "record" THEN FirstCandidate(value, 1)
            ELSE NoTimestamp

\* the loop over the candidate keys of a record, from the k-th on
FirstCandidate(value, k) ==
    IF k > Len(TsCandidates) THEN NoTimestamp
    ELSE LET ts == normalizeTimestamp(TsProperty(value, TsCandidates[k]))
         IN IF ts.kind # "null" THEN ts ELSE FirstCandidate(value, k + 1)

TsNumbers ==
    { Number(FALSE, 0, 0, FALSE),
      Number(TRUE, 0, 1, FALSE),
      Number(FALSE, 0, 0, TRUE),
      Number(TRUE, 0, 0, TRUE),
      Number(FALSE, 0, 1, TRUE),
      Number(FALSE, 0, 999, FALSE),
      Number(FALSE, 1700000, 0, FALSE),
      Number(FALSE, 1000000000, 0, FALSE),
      Number(FALSE, 1000000000, 0, TRUE),
      Number(FALSE, 1000000000, 1, FALSE),
      Number(FALSE, 1700000000, 123, FALSE),
      Number(FALSE, 1700000000, 123, TRUE) }

\* a string and the number it is the decimal notation of
Denoting(str, num) == [value |-> TsString(str), denotes |-> num]
TsNumericStrings ==
    { Denoting(<<"0">>, Number(FALSE, 0, 0, FALSE)),
      Denoting(<<"-", "1">>, Number(TRUE, 0, 1, FALSE)),
      Denoting(<<"1", ".", "5">>, Number(FALSE, 0, 1, TRUE)),
      Denoting(<<" ", "9", "9", "9", " ">>, Number(FALSE, 0, 999, FALSE)),
      Denoting(<<"1", "7", "0", "0", "0", "0", "0", "0", "0", "0">>, Number(FALSE, 1700000, 0, FALSE)),
      Denoting(<<"1", "0", "0", "0", "0", "0", "0", "0", "0", "0", "0", "0", "0">>, Number(FALSE, 1000000000, 0, FALSE)),
      Denoting(<<"1", "0", "0", "0", "0", "0", "0", "0", "0", "0", "0", "0", "0", ".", "5">>, Number(FALSE, 1000000000, 0, TRUE)),
      Denoting(<<"1", "0", "0", "0", "0", "0", "0", "0", "0", "0", "0", "0", "1">>, Number(FALSE, 1000000000, 1, FALSE)),
      Denoting(<<"1", "7", "0", "0", "0", "0", "0", "0", "0", "0", "1", "2", "3">>, Number(FALSE, 1700000000, 123, FALSE)) }
TsOtherStrings == { <<>>, <<" ">>, <<"x">>, DateString }

TsScalars ==
    { [value |-> TsNumber(n), denotes |-> n] : n \in TsNumbers }
    \cup TsNumericStrings
    \cup { [value |-> TsString(str), denotes |-> NotNumber] : str \in TsOtherStrings }
    \cup { [value |-> v, denotes |-> NotNumber] : v \in {TsNonFinite, TsNothing} }

RECURSIVE TsValues(_)
TsValues(depth) ==
    IF depth = 0 THEN { x.value : x \in TsScalars }
    ELSE LET inner == TsValues(depth - 1)
         IN inner
            \cup { TsRecord(<<Entry("seconds", v)>>) : v \in inner }
            \cup { TsRecord(<<Entry("other", v)>>) : v \in inner }
            \cup { TsRecord(<<Entry("value", v), Entry("unix", TsString(<<"x">>))>>) : v \in inner }

TimestampCalls ==
    { [fn |-> "normalizeTimestamp", value |-> x.value, denotes |-> x.denotes] : x \in TsScalars }
    \cup { [fn |-> "normalizeTimestamp", value |-> v, denotes |-> NotNumber] :
             v \in TsValues(MaxNesting) \ TsValues(0) }

NormalizeTimestamp == Returns("normalizeTimestamp", normalizeTimestamp(fnCall.value))

InitTimestamp ==
    /\ InitOauthVars /\ InitDeleteVars /\ InitRefreshVars /\ InitTagVars /\ InitCurrentVars
    /\ InitMountVars /\ InitPagesVars
    /\ fnCall \in TimestampCalls
    /\ result = <<>>

NextTimestamp == NormalizeTimestamp

SpecTimestamp == InitTimestamp /\ [][NextTimestamp]_vars

\* the seconds the number n stands for: none for n <= 0, floor(n) up to
\* 10^12, floor(n / 1000) above
ExpectedSeconds(n) ==
    IF n.neg \/ (n.th = 0 /\ n.un = 0 /\ ~n.frac) THEN NoTimestamp
    ELSE IF n.th < 1000000000 \/ (n.th = 1000000000 /\ n.un = 0 /\ ~n.frac)
         THEN Timestamp(n.th, n.un)
         ELSE Timestamp(n.th \div 1000, n.th % 1000)

\* C17: normalizeTimestamp of a finite number n is floor(n) for
\* 0 < n <= 10^12, floor(n / 1000) for n > 10^12 and null for n <= 0; of a
\* non-finite number it is null; of a string that is the notation of a number
\* it is what it is of that number.
C17_NormalizeTimestampOfNumbers ==
    (fnCall.fn = "normalizeTimestamp" /\ result # <<>>)
        => /\ fnCall.value.kind = "number" => result[1] = ExpectedSeconds(fnCall.value.num)
           /\ fnCall.value.kind = "nonfinite" => result[1] = NoTimestamp
           /\ (fnCall.value.kind = "string" /\ fnCall.denotes.kind = "num")
                 => result[1] = ExpectedSeconds(fnCall.denotes)

\* a string denoting exactly 10^12 has been normalized to 10^12 seconds
C17_Witness ==
    /\ fnCall.fn = "normalizeTimestamp"
    /\ fnCall.value.kind = "string"
    /\ fnCall.denotes = Number(FALSE, 1000000000, 0, FALSE)
    /\ result = <<Timestamp(1000000000, 0)>>

\* ------------------------------------------------------------------
\* The sort of filteredAccounts in the provider pages (SpecSort).  A value
\* that may be null or missing is <<>> or <<n>>.
\* ------------------------------------------------------------------
MaxSorted == 3

KiroSortKeys == {"created_at", "plan_end", "credits"}
CodexSortKeys == {"created_at", "weekly_reset", "hourly_reset", "weekly", "hourly"}
SortDirections == {"asc", "desc"}

\* value ?? fallback
OrElse(value, fallback) == IF value = <<>> THEN fallback ELSE value[1]

Directed(sortDirection, diff) == IF sortDirection = "desc" THEN diff ELSE 0 - diff

\* the comparison with nulls last, whatever the direction
compareNullsLast(aR, bR, sortDirection) ==
    IF aR = <<>> /\ bR = <<>> THEN 0
    ELSE IF aR = <<>> THEN 1
    ELSE IF bR = <<>> THEN 0 - 1
    ELSE Directed(sortDirection, bR[1] - aR[1])

kiroCompare(a, b, sortBy, sortDirection) ==
    IF sortBy = "created_at" THEN Directed(sortDirection, b.created_at - a.created_at)
    ELSE IF sortBy = "plan_end" THEN compareNullsLast(a.planEndsAt, b.planEndsAt, sortDirection)
    ELSE Directed(sortDirection, OrElse(b.creditsLeft, 0 - 1) - OrElse(a.creditsLeft, 0 - 1))

codexCompare(a, b, sortBy, sortDirection) ==
    IF sortBy = "created_at" THEN Directed(sortDirection, b.created_at - a.created_at)
    ELSE IF sortBy = "weekly_reset"
    THEN compareNullsLast(a.weekly_reset_time, b.weekly_reset_time, sortDirection)
    ELSE IF sortBy = "hourly_reset"
    THEN compareNullsLast(a.hourly_reset_time, b.hourly_reset_time, sortDirection)
    ELSE IF sortBy = "weekly"
    THEN Directed(sortDirection,
                  OrElse(b.weekly_percentage, 0 - 1) - OrElse(a.weekly_percentage, 0 - 1))
    ELSE Directed(sortDirection,
                  OrElse(b.hourly_percentage, 0 - 1) - OrElse(a.hourly_percentage, 0 - 1))

compareAccounts(page, a, b, sortBy, sortDirection) ==
    IF page = "kiro" THEN kiroCompare(a, b, sortBy, sortDirection)
    ELSE codexCompare(a, b, sortBy, sortDirection)

\* Array.prototype.sort is stable: x goes behind every element that does not
\* compare greater than it
InsertSorted(page, sorted, x, sortBy, sortDirection) ==
    LET after == { k \in 1..Len(sorted) :
                     compareAccounts(page, sorted[k], x, sortBy, sortDirection) > 0 }
        at == IF after = {} THEN Len(sorted) + 1
              ELSE CHOOSE k \in after : \A j \in after : k <= j
    IN SubSeq(sorted, 1, at - 1) \o <<x>> \o SubSeq(sorted, at, Len(sorted))

RECURSIVE sortAccounts(_, _, _, _)
sortAccounts(page, list, sortBy, sortDirection) ==
    IF list = <<>> THEN <<>>
    ELSE InsertSorted(page,
                      sortAccounts(page, SubSeq(list, 1, Len(list) - 1), sortBy, sortDirection),
                      list[Len(list)], sortBy, sortDirection)

KiroSortAccounts ==
    [created_at : {1, 2}, planEndsAt : {<<>>, <<5>>}, creditsLeft : {<<>>, <<0>>, <<3>>}]
CodexSortAccounts ==
    { [created_at |-> 1, weekly_reset_time |-> <<5>>, hourly_reset_time |-> <<>>,
       weekly_percentage |-> <<0>>, hourly_percentage |-> <<>>],
      [created_at |-> 2, weekly_reset_time |-> <<>>, hourly_reset_time |-> <<7>>,
       weekly_percentage |-> <<>>, hourly_percentage |-> <<40>>],
      [created_at |-> 3, weekly_reset_time |-> <<9>>, hourly_reset_time |-> <<3>>,
       weekly_percentage |-> <<60>>, hourly_percentage |-> <<0>>],
      [created_at |-> 4, weekly_reset_time |-> <<>>, hourly_reset_time |-> <<>>,
       weekly_percentage |-> <<>>, hourly_percentage |-> <<>>] }

SortCalls ==
    [fn : {"sort"}, page : {"kiro"}, list : SeqsUpTo(KiroSortAccounts, MaxSorted),
       sortBy : KiroSortKeys, sortDirection : SortDirections]
    \cup [fn : {"sort"}, page : {"codex"}, list : SeqsUpTo(CodexSortAccounts, MaxSorted),
          sortBy : CodexSortKeys, sortDirection : SortDirections]

KiroSort ==
    /\ fnCall.page = "kiro"
    /\ Returns("sort", sortAccounts("kiro", fnCall.list, fnCall.sortBy, fnCall.sortDirection))

CodexSort ==
    /\ fnCall.page = "codex"
    /\ Returns("sort", sortAccounts("codex", fnCall.list, fnCall.sortBy, fnCall.sortDirection))

InitSort ==
    /\ InitOauthVars /\ InitDeleteVars /\ InitRefreshVars /\ InitTagVars /\ InitCurrentVars
    /\ InitMountVars /\ InitPagesVars
    /\ fnCall \in SortCalls
    /\ result = <<>>

NextSort == KiroSort \/ CodexSort

SpecSort == InitSort /\ [][NextSort]_vars

\* the value the sort key compares of an account; created_at is never missing
SortValue(page, account, sortBy) ==
    CASE sortBy = "created_at" -> <<account.created_at>>
      [] sortBy = "plan_end" -> account.planEndsAt
      [] sortBy = "credits" -> account.creditsLeft
      [] sortBy = "weekly_reset" -> account.weekly_reset_time
      [] sortBy = "hourly_reset" -> account.hourly_reset_time
      [] sortBy = "weekly" -> account.weekly_percentage
      [] sortBy = "hourly" -> account.hourly_percentage

\* C22: in the sorted list of a provider page, for every sort key and both
\* directions, no account whose comparison value is null or missing stands
\* before an account that has a value.
C22_NullsSortLast ==
    (fnCall.fn = "sort" /\ result # <<>>)
        => \A i, j \in 1..Len(result[1]) :
              i < j => ~ /\ SortValue(fnCall.page, result[1][i], fnCall.sortBy) = <<>>
                         /\ SortValue(fnCall.page, result[1][j], fnCall.sortBy) # <<>>

\* ------------------------------------------------------------------
\* Grouping by tag in the provider pages (SpecGroup).  An account is
\* [id, tags]; the accounts of a call are numbered in the order of the list.
\* ------------------------------------------------------------------
MaxGrouped == 3

\* '__untagged__'
untaggedKey == <<"_", "_">>

\* the collation of the characters the keys are made of
CharOrder == <<" ", "_", "a", "b">>
CharRank(c) == CHOOSE k \in 1..Len(CharOrder) : CharOrder[k] = c

\* aKey.localeCompare(bKey), for keys over these characters
RECURSIVE localeCompare(_, _)
localeCompare(x, y) ==
    IF x = <<>> /\ y = <<>> THEN 0
    ELSE IF x = <<>> THEN 0 - 1
    ELSE IF y = <<>> THEN 1
    ELSE IF CharRank(x[1]) < CharRank(y[1]) THEN 0 - 1
    ELSE IF CharRank(x[1]) > CharRank(y[1]) THEN 1
    ELSE localeCompare(Tail(x), Tail(y))

\* new Set(tagFilter.map(normalizeTag))
selectedTagsOf(filter) == { normalizeTag(filter[k]) : k \in 1..Len(filter) }

\* the tag step of filteredAccounts
filterByTags(list, filter) ==
    IF Len(filter) = 0 THEN list
    ELSE SelectSeq(list, LAMBDA acc :
             \E k \in 1..Len(acc.tags) : normalizeTag(acc.tags[k]) \in selectedTagsOf(filter))

\* (account.tags || []).map(normalizeTag).filter(Boolean), then the selected ones
matchedTagsOf(acc, filter) ==
    LET tags == SelectSeq([k \in 1..Len(acc.tags) |-> normalizeTag(acc.tags[k])],
                          LAMBDA tag : tag # <<>>)
    IN IF selectedTagsOf(filter) # {}
       THEN SelectSeq(tags, LAMBDA tag : tag \in selectedTagsOf(filter))
       ELSE tags

\* groups.get(key).push(account), after groups.set(key, []) for a new key
PushTo(groups, key, id) ==
    IF \E k \in 1..Len(groups) : groups[k].key = key
    THEN [k \in 1..Len(groups) |->
            IF groups[k].key = key
            THEN [groups[k] EXCEPT !.accounts = Append(@, id)]
            ELSE groups[k]]
    ELSE Append(groups, [key |-> key, accounts |-> <<id>>])

RECURSIVE PushAll(_, _, _)
PushAll(groups, keys, id) ==
    IF keys = <<>> THEN groups
    ELSE PushAll(PushTo(groups, keys[1], id), Tail(keys), id)

\* filteredAccounts.forEach(...) over the first n accounts
RECURSIVE GroupsOf(_, _, _)
GroupsOf(filtered, filter, n) ==
    IF n = 0 THEN <<>>
    ELSE LET groups == GroupsOf(filtered, filter, n - 1)
             matchedTags == matchedTagsOf(filtered[n], filter)
         IN IF Len(matchedTags) = 0
            THEN PushTo(groups, untaggedKey, filtered[n].id)
            ELSE PushAll(groups, matchedTags, filtered[n].id)

\* the comparator without the rule for the untagged bucket
groupCompare_NoUntaggedRule(aKey, bKey) == localeCompare(aKey, bKey)

groupCompare(aKey, bKey) ==
    IF aKey = untaggedKey THEN 1
    ELSE IF bKey = untaggedKey THEN 0 - 1
    ELSE localeCompare(aKey, bKey)

\* the stable sort of the entries
RECURSIVE sortGroups(_)
sortGroups(groups) ==
    IF groups = <<>> THEN <<>>
    ELSE LET sorted == sortGroups(SubSeq(groups, 1, Len(groups) - 1))
             x == groups[Len(groups)]
             after == { k \in 1..Len(sorted) : groupCompare(sorted[k].key, x.key) > 0 }
             at == IF after = {} THEN Len(sorted) + 1
                   ELSE CHOOSE k \in after : \A j \in after : k <= j
         IN SubSeq(sorted, 1, at - 1) \o <<x>> \o SubSeq(sorted, at, Len(sorted))

groupedAccounts(list, filter, groupByTag) ==
    IF ~groupByTag THEN <<>>
    ELSE sortGroups(GroupsOf(filterByTags(list, filter), filter,
                             Len(filterByTags(list, filter))))

GroupTagLists ==
    { <<>>, <<TagBlank>>, <<TagWork>>, <<TagWorkRaw, TagHome>>, <<TagHome, TagWork>>,
      <<TagWork, TagWorkRaw>> }
GroupTagFilters == { <<>>, <<TagWork>>, <<TagHome>>, <<TagHome, TagWork>> }
GroupCalls ==
    { [fn |-> "group", list |-> [k \in 1..Len(tl) |-> [id |-> k, tags |-> tl[k]]],
       filter |-> f, groupByTag |-> g] :
         tl \in SeqsUpTo(GroupTagLists, MaxGrouped), f \in GroupTagFilters, g \in BOOLEAN }

GroupedAccounts ==
    Returns("group", groupedAccounts(fnCall.list, fnCall.filter, fnCall.groupByTag))

InitGroup ==
    /\ InitOauthVars /\ InitDeleteVars /\ InitRefreshVars /\ InitTagVars /\ InitCurrentVars
    /\ InitMountVars /\ InitPagesVars
    /\ fnCall \in GroupCalls
    /\ result = <<>>

NextGroup == GroupedAccounts

SpecGroup == InitGroup /\ [][NextGroup]_vars

\* the normalized tags of an account, and the ones its buckets are named by
NormalizedTags(acc) == { lowerAll(trim(acc.tags[k])) : k \in 1..Len(acc.tags) } \ {<<>>}
SelectedTags == { lowerAll(trim(fnCall.filter[k])) : k \in 1..Len(fnCall.filter) }
BucketTags(acc) ==
    IF SelectedTags = {} THEN NormalizedTags(acc) ELSE NormalizedTags(acc) \cap SelectedTags
IsFiltered(acc) == SelectedTags = {} \/ NormalizedTags(acc) \cap SelectedTags # {}
InBucket(bucket, id) == \E p \in 1..Len(bucket.accounts) : bucket.accounts[p] = id

\* C23: with group-by-tag enabled every filtered account is in the bucket of
\* each of its normalized tags (the selected ones under a tag filter) and in
\* no other tag bucket; without such a tag it is in the untagged bucket only;
\* every filtered account is in a bucket; there is one bucket per key, the
\* buckets are in alphabetical order with the untagged one last, and inside a
\* bucket the accounts are in the order of the filtered list.
C23_GroupByTagFansOut ==
    (fnCall.fn = "group" /\ result # <<>> /\ fnCall.groupByTag)
        => LET buckets == result[1]
               list == fnCall.list
           IN /\ \A n \in 1..Len(list) :
                   /\ \A tag \in BucketTags(list[n]) :
                         IsFiltered(list[n]) =>
                            \E b \in 1..Len(buckets) :
                               buckets[b].key = tag /\ InBucket(buckets[b], n)
                   /\ \A b \in 1..Len(buckets) :
                         InBucket(buckets[b], n) =>
                            /\ IsFiltered(list[n])
                            /\ IF buckets[b].key = untaggedKey
                               THEN BucketTags(list[n]) = {}
                               ELSE buckets[b].key \in BucketTags(list[n])
                   /\ IsFiltered(list[n]) => \E b \in 1..Len(buckets) : InBucket(buckets[b], n)
              /\ \A b, c \in 1..Len(buckets) :
                   b < c => /\ buckets[b].key # buckets[c].key
                            /\ buckets[b].key # untaggedKey
                            /\ buckets[c].key # untaggedKey
                                  => CharRank(buckets[b].key[1]) < CharRank(buckets[c].key[1])
              /\ \A b \in 1..Len(buckets) :
                   /\ buckets[b].accounts # <<>>
                   /\ \A p, q \in 1..Len(buckets[b].accounts) :
                         p < q => buckets[b].accounts[p] <= buckets[b].accounts[q]

\* three accounts under no tag filter: one with two tags in both tag buckets,
\* "a" before "b", and the untagged bucket last
C23_Witness ==
    /\ fnCall.fn = "group"
    /\ fnCall.groupByTag
    /\ fnCall.filter = <<>>
    /\ result # <<>>
    /\ Len(result[1]) = 3
    /\ result[1][1].key = <<"a">>
    /\ result[1][2].key = <<"b">>
    /\ result[1][3].key = untaggedKey
    /\ \E n \in 1..Len(fnCall.list) :
          InBucket(result[1][1], n) /\ InBucket(result[1][2], n)

\* ------------------------------------------------------------------
\* Select all (SpecSelect): the header checkbox calls toggleSelectAll with
\* the ids of filteredAccounts, the listed accounts the filters let through.
\* ------------------------------------------------------------------
toggleSelectAll(sel, filteredIds) ==
    LET allSelected == Cardinality(sel) = Cardinality(filteredIds)
                          /\ Cardinality(filteredIds) > 0
    IN IF allSelected THEN {} ELSE filteredIds

ToggleSelectAll(filteredIds) ==
    /\ filteredIds \subseteq accounts
    /\ selected' = toggleSelectAll(selected, filteredIds)
    /\ UNCHANGED <<accounts, deleteConfirm, deleting, deleteInFlight, exporting,
                   message, rejected, varsNotDelete>>

InitSelect == InitDelete

NextSelect ==
    \/ \E filteredIds \in SUBSET AccountIds : ToggleSelectAll(filteredIds)
    \/ NextDelete

SpecSelect == InitSelect /\ [][NextSelect]_vars

\* C27: toggleSelectAll(filteredIds) clears the selection only when
\* filteredIds is not empty and every id in it is selected; otherwise the
\* selection becomes exactly filteredIds, also when the selection holds as
\* many ids as filteredIds but different ones.
C27_SelectAllClearsOnlyWhenAllSelected ==
    [][ \A filteredIds \in SUBSET AccountIds :
          ToggleSelectAll(filteredIds)
            => selected' = IF filteredIds # {} /\ filteredIds \subseteq selected
                           THEN {} ELSE filteredIds ]_vars

\* ------------------------------------------------------------------
\* The Codex account store (SpecStore), stores/useCodexAccountStore.ts.
\* An operation under way is in its service call ("service") or in the
\* fetchAccounts it awaits afterwards ("fetch").
\* ------------------------------------------------------------------
MaxPending == 2

StoreOperations == {"switchAccount", "deleteAccounts", "refreshQuota"}
StoreLists == { <<>>, <<1>>, <<1, 2>> }

Without(seq, i) == SubSeq(seq, 1, i - 1) \o SubSeq(seq, i + 1, Len(seq))

StoreStep(next) == codexStore' = next /\ UNCHANGED <<tokenImport, exportModal, varsHook>>

\* fetchAccounts up to its await: set({ loading: true, error: null })
fetchAccountsStarts(s) == [s EXCEPT !.loading = TRUE, !.error = "none"]

\* set({ accounts, loading: false })
fetchAccountsResolves(s, i, list) ==
    [s EXCEPT !.accounts = list, !.loading = FALSE, !.pending = Without(@, i)]

\* set({ error: String(e), loading: false })
fetchAccountsRejects(s, i) ==
    [s EXCEPT !.error = "E", !.loading = FALSE, !.pending = Without(@, i)]

\* the page, or another caller, calls fetchAccounts
FetchAccounts ==
    /\ Len(codexStore.pending) < MaxPending
    /\ StoreStep(fetchAccountsStarts(
          [codexStore EXCEPT
              !.pending = Append(@, [op |-> "fetchAccounts", phase |-> "fetch"])]))

\* switchAccount, deleteAccounts, refreshQuota up to the await of their service call
StoreOperationStarts(op) ==
    /\ Len(codexStore.pending) < MaxPending
    /\ StoreStep([codexStore EXCEPT !.pending = Append(@, [op |-> op, phase |-> "service"])])

\* the service call resolves: await get().fetchAccounts()
ServiceResolves(i) ==
    /\ i \in 1..Len(codexStore.pending)
    /\ codexStore.pending[i].phase = "service"
    /\ StoreStep(fetchAccountsStarts([codexStore EXCEPT !.pending[i].phase = "fetch"]))

\* the service call rejects: the operation rejects to its caller
ServiceRejects(i) ==
    /\ i \in 1..Len(codexStore.pending)
    /\ codexStore.pending[i].phase = "service"
    /\ StoreStep([codexStore EXCEPT !.pending = Without(@, i)])

FetchResolves(i, list) ==
    /\ i \in 1..Len(codexStore.pending)
    /\ codexStore.pending[i].phase = "fetch"
    /\ StoreStep(fetchAccountsResolves(codexStore, i, list))

FetchRejects(i) ==
    /\ i \in 1..Len(codexStore.pending)
    /\ codexStore.pending[i].phase = "fetch"
    /\ StoreStep(fetchAccountsRejects(codexStore, i))

InitStore ==
    /\ InitOauthVars /\ InitDeleteVars /\ InitRefreshVars /\ InitTagVars /\ InitOtherVars

NextStore ==
    \/ FetchAccounts
    \/ \E op \in StoreOperations : StoreOperationStarts(op)
    \/ \E i \in 1..MaxPending : ServiceResolves(i)
    \/ \E i \in 1..MaxPending : ServiceRejects(i)
    \/ \E i \in 1..MaxPending, list \in StoreLists : FetchResolves(i, list)
    \/ \E i \in 1..MaxPending : FetchRejects(i)

SpecStore == InitStore /\ [][NextStore]_vars

\* the number of fetchAccounts calls in flight
FetchesInFlight(s) ==
    Cardinality({ i \in 1..Len(s.pending) : s.pending[i].phase = "fetch" })

\* C29: loading is true whenever at least one fetchAccounts call is in
\* flight, also when fetches overlap, and false once none is in flight; a
\* failing fetch leaves accounts unchanged and sets error.
C29_LoadingWhileFetchInFlight ==
    /\ [](codexStore.loading <=> FetchesInFlight(codexStore) > 0)
    /\ [][ \A i \in 1..MaxPending :
             FetchRejects(i) => /\ codexStore'.accounts = codexStore.accounts
                                /\ codexStore'.error # "none" ]_vars

\* ------------------------------------------------------------------
\* The export dialog (SpecExport), hooks/useExportJsonModal.ts.
\* ------------------------------------------------------------------
MaxExports == 3

ExportIdLists == { <<>>, <<1>>, <<1, 2>> }
SavePaths == { "/downloads/a.json", "/tmp/a.json" }

\* the JSON exportJsonByIds resolves with
exportJsonByIds(ids) == IF Len(ids) = 1 THEN "[1]" ELSE "[1,2]"

ExportStep(next) == exportModal' = next /\ UNCHANGED <<tokenImport, codexStore, varsHook>>

\* startExport up to its await
startExport(s, ids) ==
    IF Len(ids) = 0 THEN s
    ELSE [s EXCEPT !.preparing = TRUE, !.pending = Append(@, ids), !.started = @ + 1]

\* startExport after exportJsonByIds resolved, finally included
exportResolves(s, i) ==
    [s EXCEPT !.jsonContent = exportJsonByIds(s.pending[i]), !.hidden = TRUE,
              !.copied = FALSE, !.savedPath = "none", !.pathCopied = FALSE,
              !.showModal = TRUE, !.preparing = FALSE,
              !.pending = Without(@, i)]

\* catch and finally of startExport
exportRejects(s, i) ==
    [s EXCEPT !.onErrorCalls = @ + 1, !.preparing = FALSE, !.pending = Without(@, i)]

closeModal(s) == [s EXCEPT !.showModal = FALSE, !.hidden = TRUE, !.copied = FALSE]

StartExport(ids) ==
    /\ exportModal.started < MaxExports
    /\ Len(exportModal.pending) < MaxPending
    /\ ExportStep(startExport(exportModal, ids))

ExportResolves(i) ==
    /\ i \in 1..Len(exportModal.pending)
    /\ ExportStep(exportResolves(exportModal, i))

ExportRejects(i) ==
    /\ i \in 1..Len(exportModal.pending)
    /\ ExportStep(exportRejects(exportModal, i))

CloseModal ==
    /\ exportModal.showModal
    /\ ExportStep(closeModal(exportModal))

ToggleHidden ==
    /\ exportModal.showModal
    /\ ExportStep([exportModal EXCEPT !.hidden = ~@])

\* copyJson with the clipboard write resolved
CopyJson ==
    /\ exportModal.showModal
    /\ exportModal.jsonContent # ""
    /\ ExportStep([exportModal EXCEPT !.copied = TRUE])

\* window.setTimeout(() => setCopied(false), 1200)
CopiedTimerFires ==
    /\ exportModal.copied
    /\ ExportStep([exportModal EXCEPT !.copied = FALSE])

\* saveJson up to its await
SaveJson ==
    /\ exportModal.showModal
    /\ exportModal.jsonContent # ""
    /\ ~exportModal.saving
    /\ ~exportModal.savePending
    /\ exportModal.onErrorCalls < MaxExports
    /\ ExportStep([exportModal EXCEPT !.saving = TRUE, !.savePending = TRUE])

\* saveJsonFile resolves with the chosen path
SaveJsonResolves(filePath) ==
    /\ exportModal.savePending
    /\ ExportStep([exportModal EXCEPT !.savedPath = filePath, !.pathCopied = FALSE,
                                      !.saving = FALSE, !.savePending = FALSE])

\* the save dialog was cancelled: saveJsonFile resolves with null
SaveJsonCancelled ==
    /\ exportModal.savePending
    /\ ExportStep([exportModal EXCEPT !.saving = FALSE, !.savePending = FALSE])

SaveJsonRejects ==
    /\ exportModal.savePending
    /\ ExportStep([exportModal EXCEPT !.onErrorCalls = @ + 1, !.saving = FALSE,
                                      !.savePending = FALSE])

InitExport ==
    /\ InitOauthVars /\ InitDeleteVars /\ InitRefreshVars /\ InitTagVars /\ InitOtherVars

NextExport ==
    \/ \E ids \in ExportIdLists : StartExport(ids)
    \/ \E i \in 1..MaxPending : ExportResolves(i)
    \/ \E i \in 1..MaxPending : ExportRejects(i)
    \/ CloseModal
    \/ ToggleHidden
    \/ CopyJson
    \/ CopiedTimerFires
    \/ SaveJson
    \/ \E filePath \in SavePaths : SaveJsonResolves(filePath)
    \/ SaveJsonCancelled
    \/ SaveJsonRejects

SpecExport == InitExport /\ [][NextExport]_vars

\* C30: an export job lives only while the export dialog is open: startExport
\* with at least one id opens the dialog with hidden true, copied false and
\* no saved path; with no id it does nothing; a failing export calls onError,
\* opens no dialog and leaves preparing false; after closeModal no job data
\* is kept, jsonContent is empty and savedPath is null.
C30_ExportJobLivesWhileModalOpen ==
    /\ [][ StartExport(<<>>) => exportModal' = exportModal ]_vars
    /\ [][ (\E i \in 1..MaxPending : ExportResolves(i))
             => /\ exportModal'.showModal
                /\ exportModal'.hidden
                /\ ~exportModal'.copied
                /\ exportModal'.savedPath = "none" ]_vars
    /\ [][ (\E i \in 1..MaxPending : ExportRejects(i))
             => /\ exportModal'.onErrorCalls = exportModal.onErrorCalls + 1
                /\ exportModal'.showModal = exportModal.showModal
                /\ ~exportModal'.preparing ]_vars
    /\ [][ CloseModal => /\ exportModal'.jsonContent = ""
                         /\ exportModal'.savedPath = "none" ]_vars

\* ------------------------------------------------------------------
\* The token import of the Antigravity page (SpecTokenImport),
\* pages/AccountsPage.tsx.  The text of the token box is kept by what
\* JSON.parse makes of it: blank, an array of items, one object, or text
\* that is no JSON; an item is a string or an object with the fields
\* refresh_token and refreshToken ("" when absent).  refreshTokens lists the
\* distinct refresh tokens the text holds.
\* ------------------------------------------------------------------

startsWithToken(value) == value \in {"1//a", "1//b", "1//c"}

StringItem(value) == [kind |-> "string", value |-> value, refresh_token |-> "", refreshToken |-> ""]
ObjectItem(refresh_token, refreshToken) ==
    [kind |-> "object", value |-> "", refresh_token |-> refresh_token,
     refreshToken |-> refreshToken]

\* item.refresh_token || item.refreshToken
TokenField(item) == IF item.refresh_token # "" THEN item.refresh_token ELSE item.refreshToken

\* the value pushToken is called with for an item of the parsed JSON
PushedValue(item) == IF item.kind = "string" THEN item.value ELSE TokenField(item)

\* trimmed.match(/1\/\/[a-zA-Z0-9_\-]+/g): every token in the text, in order
RECURSIVE RegexMatches(_)
RegexMatches(items) ==
    IF items = <<>> THEN <<>>
    ELSE SelectSeq(<<items[1].value, items[1].refresh_token, items[1].refreshToken>>,
                   startsWithToken)
         \o RegexMatches(Tail(items))

\* Array.from(new Set(tokens))
RECURSIVE Distinct(_)
Distinct(seq) ==
    IF seq = <<>> THEN <<>>
    ELSE LET front == Distinct(SubSeq(seq, 1, Len(seq) - 1))
         IN IF \E k \in 1..Len(front) : front[k] = seq[Len(seq)] THEN front
            ELSE Append(front, seq[Len(seq)])

extractRefreshTokens(input) ==
    LET pushed == SelectSeq([k \in 1..Len(input.items) |-> PushedValue(input.items[k])],
                            startsWithToken)
        tokens == IF input.kind \in {"array", "object"} THEN pushed ELSE <<>>
    IN IF input.kind = "blank" THEN <<>>
       ELSE IF Len(tokens) = 0 THEN Distinct(RegexMatches(input.items))
       ELSE Distinct(tokens)

BlankInput == [kind |-> "blank", items |-> <<>>, refreshTokens |-> <<>>]
AgTokenInputs ==
    { BlankInput,
      [kind |-> "text", items |-> <<StringItem("x")>>, refreshTokens |-> <<>>],
      [kind |-> "text", items |-> <<StringItem("1//a"), StringItem("1//b"), StringItem("1//a")>>,
       refreshTokens |-> <<"1//a", "1//b">>],
      [kind |-> "array",
       items |-> <<StringItem("1//a"), ObjectItem("1//b", ""), StringItem("x"),
                   ObjectItem("", "1//c")>>,
       refreshTokens |-> <<"1//a", "1//b", "1//c">>],
      [kind |-> "array", items |-> <<ObjectItem("", "1//a"), ObjectItem("1//a", "x")>>,
       refreshTokens |-> <<"1//a">>],
      [kind |-> "object", items |-> <<ObjectItem("x", "")>>, refreshTokens |-> <<>>],
      [kind |-> "object", items |-> <<ObjectItem("", "1//b")>>, refreshTokens |-> <<"1//b">>] }

Message(key, a, b) == [key |-> key, a |-> a, b |-> b]

agResetAddModalState(s) ==
    [s EXCEPT !.addStatus = "idle", !.addMessage = NoMessage, !.tokenInput = BlankInput]

\* the import ends without marking a partial import
agFinishImport_PartialAsSuccess(s) ==
    IF s.success > 0
    THEN [s EXCEPT !.addStatus = "success",
                   !.addMessage = Message("importSuccess", s.success, 0),
                   !.timers = @ + 1, !.importing = FALSE, !.phase = "idle"]
    ELSE [s EXCEPT !.addStatus = "error", !.addMessage = Message("importFailed", 0, 0),
                   !.importing = FALSE, !.phase = "idle"]

\* handleTokenImport after the loop and the refresh: the outcome
agFinishImport(s) ==
    IF s.success = Len(s.tokens)
    THEN [s EXCEPT !.addStatus = "success",
                   !.addMessage = Message("importSuccess", s.success, 0),
                   !.timers = @ + 1, !.importing = FALSE, !.phase = "idle"]
    ELSE IF s.success > 0
    THEN [s EXCEPT !.addStatus = "success",
                   !.addMessage = Message("importPartial", s.success, s.fail),
                   !.importing = FALSE, !.phase = "idle"]
    ELSE [s EXCEPT !.addStatus = "error", !.addMessage = Message("importFailed", 0, 0),
                   !.importing = FALSE, !.phase = "idle"]

\* the loop after the call for tokens[i] has settled: the next call, or the
\* refresh of the imported accounts, or the outcome
agAfterCall(s) ==
    IF Len(s.calls) < Len(s.tokens)
    THEN [s EXCEPT !.addMessage = Message("importProgress", Len(s.calls) + 1, Len(s.tokens)),
                   !.calls = Append(@, s.tokens[Len(s.calls) + 1])]
    ELSE IF s.success > 0 THEN [s EXCEPT !.phase = "refreshing"]
    ELSE agFinishImport(s)

agHandleTokenImport(s) ==
    LET tokens == extractRefreshTokens(s.tokenInput)
    IN IF Len(tokens) = 0
       THEN [s EXCEPT !.addStatus = "error", !.addMessage = Message("invalid", 0, 0)]
       ELSE [s EXCEPT !.importing = TRUE, !.addStatus = "loading",
                      !.addMessage = Message("importProgress", 1, Len(tokens)),
                      !.phase = "adding", !.tokens = tokens, !.calls = <<tokens[1]>>,
                      !.success = 0, !.fail = 0]

AgStep(next) == tokenImport' = next /\ UNCHANGED <<codexStore, exportModal, varsHook>>

AgOpenAddModal ==
    /\ ~tokenImport.showAddModal
    /\ AgStep(agResetAddModalState([tokenImport EXCEPT !.showAddModal = TRUE]))

AgCloseAddModal ==
    /\ tokenImport.showAddModal
    /\ AgStep(agResetAddModalState([tokenImport EXCEPT !.showAddModal = FALSE]))

AgSetTokenInput(input) ==
    /\ tokenImport.showAddModal
    /\ ~tokenImport.importing
    /\ AgStep([tokenImport EXCEPT !.tokenInput = input])

\* the import button is disabled while importing or while addStatus is loading
AgHandleTokenImport ==
    /\ tokenImport.showAddModal
    /\ ~tokenImport.importing
    /\ tokenImport.addStatus # "loading"
    /\ tokenImport.timers < MaxTimers
    /\ AgStep(agHandleTokenImport(tokenImport))

AddAccountResolves ==
    /\ tokenImport.phase = "adding"
    /\ AgStep(agAfterCall([tokenImport EXCEPT !.success = @ + 1]))

AddAccountRejects ==
    /\ tokenImport.phase = "adding"
    /\ AgStep(agAfterCall([tokenImport EXCEPT !.fail = @ + 1]))

\* Promise.allSettled of the refreshQuota calls and fetchAccounts have settled
AgRefreshSettles ==
    /\ tokenImport.phase = "refreshing"
    /\ AgStep(agFinishImport(tokenImport))

AgAutoCloseTimerFires ==
    /\ tokenImport.timers > 0
    /\ AgStep(agResetAddModalState([tokenImport EXCEPT !.timers = @ - 1,
                                                       !.showAddModal = FALSE]))

InitTokenImport ==
    /\ InitOauthVars /\ InitDeleteVars /\ InitRefreshVars /\ InitTagVars /\ InitOtherVars

NextTokenImport ==
    \/ AgOpenAddModal
    \/ AgCloseAddModal
    \/ \E input \in AgTokenInputs : AgSetTokenInput(input)
    \/ AgHandleTokenImport
    \/ AddAccountResolves
    \/ AddAccountRejects
    \/ AgRefreshSettles
    \/ AgAutoCloseTimerFires

SpecTokenImport == InitTokenImport /\ [][NextTokenImport]_vars

\* the import of a run ends in this step
TokenImportEnds == tokenImport.importing /\ ~tokenImport'.importing

\* C24: handleTokenImport over the M distinct refresh tokens of the input:
\* with M = 0 it reports an error and calls nothing; otherwise it calls
\* addAccountWithToken once per token, one call at a time, and ends, importing
\* false, with success and the auto-close when all N = M calls succeeded, with
\* the partial message carrying N and M - N when 0 < N < M, and with an error
\* when N = 0.
C24_TokenImportOutcomes ==
    /\ [][ AgHandleTokenImport =>
            IF Len(tokenImport.tokenInput.refreshTokens) = 0
            THEN /\ tokenImport'.addStatus = "error"
                 /\ tokenImport'.addMessage.key = "invalid"
                 /\ ~tokenImport'.importing
                 /\ tokenImport'.calls = tokenImport.calls
            ELSE /\ tokenImport'.importing
                 /\ tokenImport'.addStatus = "loading"
                 /\ tokenImport'.tokens = tokenImport.tokenInput.refreshTokens
                 /\ Len(tokenImport'.calls) = 1 ]_vars
    /\ [](Len(tokenImport.calls) - (tokenImport.success + tokenImport.fail) \in {0, 1})
    /\ [][ TokenImportEnds =>
            LET M == Len(tokenImport'.tokens)
                N == tokenImport'.success
            IN /\ tokenImport'.calls = tokenImport'.tokens
               /\ N + tokenImport'.fail = M
               /\ N = M => /\ tokenImport'.addStatus = "success"
                           /\ tokenImport'.addMessage = Message("importSuccess", N, 0)
                           /\ tokenImport'.timers = tokenImport.timers + 1
               /\ (0 < N /\ N < M)
                     => /\ tokenImport'.addMessage = Message("importPartial", N, M - N)
                        /\ tokenImport'.timers = tokenImport.timers
               /\ N = 0 => /\ tokenImport'.addStatus = "error"
                           /\ tokenImport'.addMessage = Message("importFailed", 0, 0)
                           /\ tokenImport'.timers = tokenImport.timers ]_vars

\* an import of three tokens has ended with two added and one failed
C24_Witness ==
    /\ ~tokenImport.importing
    /\ Len(tokenImport.calls) = 3
    /\ tokenImport.addMessage = Message("importPartial", 2, 1)

\* ------------------------------------------------------------------
\* Plan label and plan class of the presentation builders (SpecPlan),
\* stores/useCodexAccountStore.ts.  A plan string is a sequence of
\* characters; a field of the account is <<>> when it is null or undefined
\* and <<string>> otherwise.  The plans are "A" and the base plan "B".
\* ------------------------------------------------------------------
PlanStrings == { <<>>, <<" ">>, <<"a">>, <<" ", "A">>, <<"b">> }
PlanFields == { <<>> } \cup { <<string>> : string \in PlanStrings }

\* get...PlanDisplayName of types/*.ts: the name of the plan a string stands
\* for, the base plan for null, blank and unknown strings
PlanDisplayName(field) ==
    IF field # <<>> /\ lowerAll(trim(field[1])) = <<"a">> THEN <<"A">> ELSE <<"B">>

getSubscriptionTier(subscription_tier) == PlanDisplayName(subscription_tier)

\* getKiroPlanBadgeClass of types/kiro.ts: the class of the plan the string
\* stands for
getKiroPlanBadgeClass(string) == lowerAll(PlanDisplayName(<<string>>))

\* a ?? b
Coalesce(a, b) == IF a # <<>> THEN a ELSE b

\* a || b for strings: null, undefined and '' are falsy
TruthyField(a) == a # <<>> /\ a[1] # <<>>
Or(a, b) == IF TruthyField(a) THEN a ELSE b

\* a?.trim()
TrimField(a) == IF a = <<>> THEN <<>> ELSE <<trim(a[1])>>

\* rawPlan || normalizedPlan
LabelOf(rawPlan, normalizedPlan) == IF TruthyField(rawPlan) THEN rawPlan[1] ELSE normalizedPlan

Plan(planLabel, planClass) == [planLabel |-> planLabel, planClass |-> planClass]

antigravityPlan(account) ==
    LET normalizedTier == getSubscriptionTier(account.subscription_tier)
    IN Plan(normalizedTier, lowerAll(normalizedTier))

codexPlan(account) ==
    LET normalizedPlan == PlanDisplayName(account.plan_type)
        rawPlan == TrimField(account.plan_type)
    IN Plan(LabelOf(rawPlan, normalizedPlan), lowerAll(normalizedPlan))

copilotPlan(account) ==
    LET normalizedPlan == PlanDisplayName(Or(account.plan_type, account.copilot_plan))
        rawPlan == Or(TrimField(account.plan_type), TrimField(account.copilot_plan))
    IN Plan(LabelOf(rawPlan, normalizedPlan), lowerAll(normalizedPlan))

windsurfPlan(account) ==
    LET normalizedPlan ==
            PlanDisplayName(Coalesce(account.plan_type,
                                     Coalesce(account.copilot_plan, account.planName)))
        rawPlan == Or(TrimField(account.plan_type),
                      Or(TrimField(account.copilot_plan), TrimField(account.planName)))
    IN Plan(LabelOf(rawPlan, normalizedPlan), lowerAll(normalizedPlan))

kiroPlan(account) ==
    LET normalizedPlan ==
            PlanDisplayName(Coalesce(account.plan_type,
                              Coalesce(account.plan_name,
                                Coalesce(account.plan_tier, account.planName))))
        rawPlan == Or(TrimField(account.plan_type),
                      Or(TrimField(account.plan_name), TrimField(account.plan_tier)))
    IN Plan(LabelOf(rawPlan, normalizedPlan),
            getKiroPlanBadgeClass(LabelOf(rawPlan, normalizedPlan)))

PlanAccount(fn, subscription_tier, plan_type, copilot_plan, plan_name, plan_tier, planName) ==
    [fn |-> fn, subscription_tier |-> subscription_tier, plan_type |-> plan_type,
     copilot_plan |-> copilot_plan, plan_name |-> plan_name, plan_tier |-> plan_tier,
     planName |-> planName]

PlanCalls ==
    { PlanAccount("antigravityPlan", tier, <<>>, <<>>, <<>>, <<>>, <<>>) : tier \in PlanFields }
    \cup { PlanAccount("codexPlan", <<>>, type, <<>>, <<>>, <<>>, <<>>) : type \in PlanFields }
    \cup { PlanAccount("copilotPlan", <<>>, f[1], f[2], <<>>, <<>>, <<>>) :
             f \in PlanFields \X PlanFields }
    \cup { PlanAccount("windsurfPlan", <<>>, f[1], f[2], <<>>, <<>>, f[3]) :
             f \in PlanFields \X PlanFields \X PlanFields }
    \cup { PlanAccount("kiroPlan", <<>>, f[1], <<>>, f[2], f[3], f[4]) :
             f \in PlanFields \X PlanFields \X PlanFields \X PlanFields }

PlanOf(account) ==
    CASE account.fn = "antigravityPlan" -> antigravityPlan(account)
      [] account.fn = "codexPlan" -> codexPlan(account)
      [] account.fn = "copilotPlan" -> copilotPlan(account)
      [] account.fn = "windsurfPlan" -> windsurfPlan(account)
      [] account.fn = "kiroPlan" -> kiroPlan(account)

AntigravityPlan == Returns("antigravityPlan", antigravityPlan(fnCall))
CodexPlan == Returns("codexPlan", codexPlan(fnCall))
CopilotPlan == Returns("copilotPlan", copilotPlan(fnCall))
WindsurfPlan == Returns("windsurfPlan", windsurfPlan(fnCall))
KiroPlan == Returns("kiroPlan", kiroPlan(fnCall))

InitPlan ==
    /\ InitOauthVars /\ InitDeleteVars /\ InitRefreshVars /\ InitTagVars /\ InitCurrentVars
    /\ InitMountVars /\ InitPagesVars
    /\ fnCall \in PlanCalls
    /\ result = <<>>

NextPlan == AntigravityPlan \/ CodexPlan \/ CopilotPlan \/ WindsurfPlan \/ KiroPlan

SpecPlan == InitPlan /\ [][NextPlan]_vars

\* the plan strings of an account in the order its builder reads them
PlanInputs(account) ==
    CASE account.fn = "antigravityPlan" -> <<account.subscription_tier>>
      [] account.fn = "codexPlan" -> <<account.plan_type>>
      [] account.fn = "copilotPlan" -> <<account.plan_type, account.copilot_plan>>
      [] account.fn = "windsurfPlan" ->
            <<account.plan_type, account.copilot_plan, account.planName>>
      [] account.fn = "kiroPlan" ->
            <<account.plan_type, account.plan_name, account.plan_tier, account.planName>>

\* the plan the builder's normalizer names for the account
NormalizedPlan(account) ==
    CASE account.fn = "copilotPlan" ->
            PlanDisplayName(Or(account.plan_type, account.copilot_plan))
      [] OTHER ->
            LET given == SelectSeq(PlanInputs(account), LAMBDA f : f # <<>>)
            IN PlanDisplayName(IF given = <<>> THEN <<>> ELSE given[1])

\* the first plan string of the account that is not blank, trimmed
RawPlan(account) ==
    LET present == SelectSeq(PlanInputs(account), LAMBDA f : f # <<>> /\ trim(f[1]) # <<>>)
    IN IF present = <<>> THEN <<>> ELSE <<trim(present[1][1])>>

\* C25: the planClass of every builder depends on the normalized plan only
\* (accounts with the same normalized plan get the same planClass), and the
\* planLabel is the trimmed raw plan string when there is one and the
\* normalized label otherwise.
C25_PlanClassFromNormalizedPlan ==
    (fnCall.fn \in {"antigravityPlan", "codexPlan", "copilotPlan", "windsurfPlan", "kiroPlan"}
       /\ result # <<>>)
    => /\ \A other \in PlanCalls :
             (other.fn = fnCall.fn /\ NormalizedPlan(other) = NormalizedPlan(fnCall))
                => PlanOf(other).planClass = result[1].planClass
       /\ result[1].planLabel
             = IF RawPlan(fnCall) # <<>> THEN RawPlan(fnCall)[1] ELSE NormalizedPlan(fnCall)

=============================================================================
